---- MODULE Spec2Model ----
(***************************************************************************)
(* Subscription lifecycle of the payments-and-subscriptions service:       *)
(* one user's local Subscription record, the billing processor (Stripe)    *)
(* state the controller talks to, and the billing events the webhook       *)
(* endpoint consumes.  Every request handler and every webhook handler is  *)
(* one action; its sequence of awaits is threaded through a "world" record *)
(* so that the effects of its processor calls and of its saves are applied *)
(* in program order.                                                       *)
(***************************************************************************)
EXTENDS Integers, Sequences, FiniteSets, TLC

VARIABLES rec, subs, nextSub, scheds, nextSched, cust, setup, checkout,
          emitted, delivered, answer, budget,
          docs, reqs, sessions, spaceLog, dlq

\* The lifecycle of one user's record.
lifeVars == <<rec, subs, nextSub, scheds, nextSched, cust, setup, checkout,
              emitted, delivered, answer, budget>>

\* The subscriptions collection document by document, the requests that
\* upsert into it while in flight, and the users-events consumer.
collVars == <<docs, reqs, sessions, spaceLog, dlq>>

vars == <<lifeVars, collVars>>

\* ------------------------------------------------------------------ bounds
MaxSubs == 3
MaxScheds == 2
MaxSetups == 1
MaxPeriod == 2
MaxAddOns == 1
MaxSteps == 2
MaxRequests == 2

\* answer is the code of the response to the request just served ("" after
\* any other step).  budget is the number of steps a run may still take: client requests
\* served, webhook deliveries processed, and steps the processor and the
\* customer take on their own.

SubIds == 1..MaxSubs
SchedIds == 1..MaxScheds
SetupIds == 1..MaxSetups

\* ----------------------------------------------------------------- catalog
\* PLANS: the three plan names and their monthly prices (in cents).
PLANS == {"FREE", "PRO", "STUDIO"}

getValidPlans == PLANS

getPlanPrice(planName) ==
  CASE planName = "FREE" -> 0
    [] planName = "PRO" -> 999
    [] planName = "STUDIO" -> 2999
    [] OTHER -> 0

\* Price references as configured by STRIPE_PRICE_FREE / _PRO / _STUDIO.
getStripePriceId(planName) ==
  CASE planName = "FREE" -> "price_free"
    [] planName = "PRO" -> "price_pro"
    [] planName = "STUDIO" -> "price_studio"
    [] OTHER -> ""

getPriceIdForPlan(planType) == getStripePriceId(planType)

\* Reverse lookup; "" stands for null (no plan has this price).
getPlanNameFromPriceId(priceId) ==
  IF \E p \in PLANS : getStripePriceId(p) = priceId
  THEN CHOOSE p \in PLANS : getStripePriceId(p) = priceId
  ELSE ""

getPlanTypeFromPriceId(priceId) ==
  IF getPlanNameFromPriceId(priceId) # ""
  THEN getPlanNameFromPriceId(priceId)
  ELSE "BASIC"

FREE_PLAN == "FREE"

\* comparePlans taking a change at equal price for an upgrade.
comparePlans_EqualIsUpgrade(currentPlan, newPlan) ==
  [isUpgrade |-> getPlanPrice(newPlan) - getPlanPrice(currentPlan) >= 0,
   isDowngrade |-> getPlanPrice(newPlan) - getPlanPrice(currentPlan) < 0,
   isSamePlan |-> getPlanPrice(newPlan) - getPlanPrice(currentPlan) = 0,
   currentPrice |-> getPlanPrice(currentPlan),
   newPrice |-> getPlanPrice(newPlan)]

comparePlans(currentPlan, newPlan) ==
  [isUpgrade |-> getPlanPrice(newPlan) - getPlanPrice(currentPlan) > 0,
   isDowngrade |-> getPlanPrice(newPlan) - getPlanPrice(currentPlan) < 0,
   isSamePlan |-> getPlanPrice(newPlan) - getPlanPrice(currentPlan) = 0,
   currentPrice |-> getPlanPrice(currentPlan),
   newPrice |-> getPlanPrice(newPlan)]

ADDONS == {"decoratives", "promotedBeat", "extraDashboard"}

availableFor(addonName) ==
  CASE addonName = "decoratives" -> {"FREE", "PRO"}
    [] addonName = "promotedBeat" -> {"PRO", "STUDIO"}
    [] addonName = "extraDashboard" -> {"FREE", "PRO"}
    [] OTHER -> {}

isAddOnAvailableForPlan(addonName, planName) ==
  addonName \in ADDONS /\ planName \in availableFor(addonName)

validProrationBehaviors == {"create_prorations", "none", "always_invoice"}

\* ------------------------------------------------------------------ record
\* metadata of a record without a pending plan change.
NoPending == [pendingPlanChange |-> "", pendingChangeDate |-> 0, scheduleId |-> 0]

\* The Subscription document of the user; exists = FALSE when the
\* collection holds no document for the user.  stripeSubscriptionId 0 and
\* stripePriceId "" stand for an unset field.
NoRecord ==
  [exists |-> FALSE, stripeSubscriptionId |-> 0, stripePriceId |-> "",
   status |-> "incomplete", planType |-> "FREE", currentPeriodEnd |-> 0,
   cancelAtPeriodEnd |-> FALSE, canceledAt |-> FALSE,
   activeAddOns |-> <<>>, metadata |-> NoPending]

isActive(r) == r.status = "active" \/ r.status = "trialing"

ActiveNames(addons) ==
  {addons[i].name : i \in {j \in DOMAIN addons : addons[j].status = "active"}}

\* --------------------------------------------------------------- processor
NoSub == [status |-> "none", price |-> "", period |-> 0, cape |-> FALSE]
NoSched == [status |-> "none", sub |-> 0, newPrice |-> ""]
NoSetup == [status |-> "none", pendingUpgradeTo |-> ""]
\* An addon map without entries, as updateSpaceContract defaults it.
NoAddOns == [n \in {} |-> 1]

NoCall == [kind |-> "none", plan |-> "", addOns |-> NoAddOns]
NoEvent == [type |-> "none", sub |-> 0, sched |-> 0, status |-> "", price |-> "",
            period |-> 0, cape |-> FALSE]

SubEvent(type, id, s) ==
  [type |-> type, sub |-> id, sched |-> 0, status |-> s.status, price |-> s.price,
   period |-> s.period, cape |-> s.cape]

SchedEvent(type, sc, id) == [NoEvent EXCEPT !.type = type, !.sub = id, !.sched = sc]

InvoiceEvent(type, id) == [NoEvent EXCEPT !.type = type, !.sub = id]

CheckoutEvent(id) == [NoEvent EXCEPT !.type = "checkout.session.completed", !.sub = id]

\* The state a handler works on, threaded through its awaits: the stored
\* record (rec), the document the handler loaded and modifies (doc), the
\* processor's objects, the events the processor emits for the
\* calls made, the number of mutating processor calls issued (mut) and the
\* last entitlement call sent (space).
Cur ==
  [rec |-> rec, doc |-> rec, subs |-> subs, nextSub |-> nextSub, scheds |-> scheds,
   nextSched |-> nextSched, cust |-> cust, setup |-> setup,
   checkout |-> checkout, evs |-> {}, mut |-> 0, space |-> NoCall]

\* stripe.subscriptions.create: a new subscription of the customer.
StripeCreate(w, priceId) ==
  LET s == [status |-> "active", price |-> priceId, period |-> 1, cape |-> FALSE]
  IN [w EXCEPT !.subs[w.nextSub] = s,
               !.nextSub = @ + 1,
               !.evs = @ \cup {SubEvent("customer.subscription.created", w.nextSub, s)},
               !.mut = @ + 1]

\* stripe.subscriptions.update(items[0].price).
StripeUpdatePrice(w, id, priceId) ==
  LET s == [w.subs[id] EXCEPT !.price = priceId]
  IN [w EXCEPT !.subs[id] = s,
               !.evs = @ \cup {SubEvent("customer.subscription.updated", id, s)},
               !.mut = @ + 1]

\* stripe.subscriptions.update(cancel_at_period_end).
StripeSetCancelAtPeriodEnd(w, id) ==
  LET s == [w.subs[id] EXCEPT !.cape = TRUE]
  IN [w EXCEPT !.subs[id] = s,
               !.evs = @ \cup {SubEvent("customer.subscription.updated", id, s)},
               !.mut = @ + 1]

\* stripe.subscriptions.cancel: the subscription ends now and the schedules
\* attached to it end with it.
StripeCancel(w, id) ==
  LET s == [w.subs[id] EXCEPT !.status = "canceled"]
  IN [w EXCEPT !.subs[id] = s,
               !.scheds = [sc \in SchedIds |->
                             IF w.scheds[sc].sub = id /\ w.scheds[sc].status = "active"
                             THEN [w.scheds[sc] EXCEPT !.status = "canceled"]
                             ELSE w.scheds[sc]],
               !.evs = @ \cup {SubEvent("customer.subscription.deleted", id, s)},
               !.mut = @ + 1]

\* stripe.subscriptionSchedules.release succeeds only on an active schedule.
CanRelease(w, sc) == sc \in SchedIds /\ w.scheds[sc].status = "active"

StripeRelease(w, sc) ==
  [w EXCEPT !.scheds[sc].status = "released",
            !.evs = @ \cup {SchedEvent("subscription_schedule.released", sc, w.scheds[sc].sub)},
            !.mut = @ + 1]

\* stripe.subscriptionSchedules.create + update(phases).
StripeSchedule(w, id, priceId) ==
  [w EXCEPT !.scheds[w.nextSched] = [status |-> "active", sub |-> id, newPrice |-> priceId],
            !.nextSched = @ + 1,
            !.mut = @ + 2]

\* stripeService.setDefaultPaymentMethod (stripe.customers.update).
StripeSetDefault(w) == [w EXCEPT !.cust.hasDefault = TRUE, !.mut = @ + 1]

\* subscription.save(): the loaded document, with the changes made to it so
\* far, replaces the stored one.
Save(w) == [w EXCEPT !.rec = w.doc]

SpaceCall(w, kind, plan, addOns) ==
  [w EXCEPT !.space = [kind |-> kind, plan |-> plan, addOns |-> addOns]]

Resp(w, code, msg, http) == [w |-> w, code |-> code, msg |-> msg, http |-> http]

SeqNames(entries) == [i \in DOMAIN entries |-> entries[i].name]

\* ------------------------------------------------- removeIncompatibleAddOns
\* Cancels every active addon of the loaded document that the catalog does
\* not list for newPlanType (its billing item is removed first, failures of
\* that call are swallowed), and saves once if anything was removed;
\* removeOk holds the addons whose billing item the processor removes and
\* saveOk is the outcome of the save, which throws when it fails.
\* removeIncompatibleAddOns with its filter inverted: nothing is found
\* incompatible, so nothing is canceled.
removeIncompatibleAddOns_KeepsAll(w, newPlanType, removeOk, saveOk) ==
  [w |-> w, saved |-> FALSE, threw |-> FALSE, removedAddOns |-> <<>>,
   remainingAddOns |-> SeqNames(SelectSeq(w.doc.activeAddOns,
                                          LAMBDA e : e.status = "active"))]

\* removeIncompatibleAddOns without the availability test: every active
\* addon is canceled.
removeIncompatibleAddOns_CancelsAll(w, newPlanType, removeOk, saveOk) ==
  LET a == w.doc.activeAddOns
      Active(e) == e.status = "active"
      removed == SeqNames(SelectSeq(a, Active))
      marked == [i \in DOMAIN a |-> [a[i] EXCEPT !.status = "canceled"]]
      w1 == [w EXCEPT !.doc.activeAddOns = marked, !.mut = @ + Len(removed)]
  IN [w |-> IF Len(removed) > 0 /\ saveOk THEN Save(w1) ELSE w1,
      saved |-> Len(removed) > 0,
      threw |-> Len(removed) > 0 /\ ~saveOk,
      removedAddOns |-> removed,
      remainingAddOns |-> <<>>]

\* removeIncompatibleAddOns without the try around removeSubscriptionItem:
\* the first removal the processor rejects ends the loop with its error,
\* the addons before it marked on the loaded document and nothing saved.
removeIncompatibleAddOns_RemovalThrows(w, newPlanType, removeOk, saveOk) ==
  LET a == w.doc.activeAddOns
      Gone(e) == e.status = "active" /\ ~isAddOnAvailableForPlan(e.name, newPlanType)
      Kept(e) == e.status = "active" /\ isAddOnAvailableForPlan(e.name, newPlanType)
      failing == {i \in DOMAIN a : Gone(a[i]) /\ a[i].name \notin removeOk}
      stop == IF failing = {} THEN Len(a) + 1
              ELSE CHOOSE i \in failing : \A j \in failing : i <= j
      marked == [i \in DOMAIN a |->
                   IF Gone(a[i]) /\ i < stop THEN [a[i] EXCEPT !.status = "canceled"]
                   ELSE a[i]]
      removed == SeqNames(SelectSeq(SubSeq(a, 1, stop - 1), Gone))
      remaining == SeqNames(SelectSeq(SubSeq(a, 1, stop - 1), Kept))
      w1 == [w EXCEPT !.doc.activeAddOns = marked,
                      !.mut = @ + Len(removed) + (IF failing = {} THEN 0 ELSE 1)]
  IN IF failing # {}
     THEN [w |-> w1, saved |-> FALSE, threw |-> TRUE, removedAddOns |-> removed,
           remainingAddOns |-> remaining]
     ELSE [w |-> IF Len(removed) > 0 /\ saveOk THEN Save(w1) ELSE w1,
           saved |-> Len(removed) > 0,
           threw |-> Len(removed) > 0 /\ ~saveOk,
           removedAddOns |-> removed,
           remainingAddOns |-> remaining]

removeIncompatibleAddOns(w, newPlanType, removeOk, saveOk) ==
  LET a == w.doc.activeAddOns
      Active(e) == e.status = "active"
      Gone(e) == e.status = "active" /\ ~isAddOnAvailableForPlan(e.name, newPlanType)
      Kept(e) == e.status = "active" /\ isAddOnAvailableForPlan(e.name, newPlanType)
      removed == SeqNames(SelectSeq(a, Gone))
      remaining == SeqNames(SelectSeq(a, Kept))
      marked == [i \in DOMAIN a |->
                   IF Gone(a[i]) THEN [a[i] EXCEPT !.status = "canceled"] ELSE a[i]]
      w1 == [w EXCEPT !.doc.activeAddOns = marked, !.mut = @ + Len(removed)]
  IN [w |-> IF Len(removed) > 0 /\ saveOk THEN Save(w1) ELSE w1,
      saved |-> Len(removed) > 0,
      threw |-> Len(removed) > 0 /\ ~saveOk,
      removedAddOns |-> removed,
      remainingAddOns |-> remaining]

Range(seq) == {seq[i] : i \in DOMAIN seq}

\* formatAddOnsForSpace: the addon map with quantity 1 under every name.
formatAddOnsForSpace(addonNames) == [n \in Range(addonNames) |-> 1]

\* ------------------------------------- stripeService.updateSubscriptionPlan
\* apply is the outcome of the call that applies the change at the
\* processor: "ok", "fail", or "nopm" (rejected for lack of a payment source).
ReleaseActiveSchedules(w, id) ==
  LET act == {sc \in SchedIds : w.scheds[sc].sub = id /\ w.scheds[sc].status = "active"}
  IN [w EXCEPT !.scheds = [sc \in SchedIds |->
                             IF sc \in act THEN [w.scheds[sc] EXCEPT !.status = "released"]
                             ELSE w.scheds[sc]],
               !.evs = @ \cup {SchedEvent("subscription_schedule.released", sc, id) : sc \in act},
               !.mut = @ + Cardinality(act)]

stripeUpdateSubscriptionPlan(w, id, newPriceId, isDowngrade, apply) ==
  LET cur == w.subs[id]
      none == [ok |-> FALSE, w |-> w, sub |-> cur, scheduled |-> FALSE,
               scheduleId |-> 0, effectiveDate |-> 0]
  IN IF cur.status = "none" THEN none
     ELSE IF cur.price = newPriceId THEN [none EXCEPT !.ok = TRUE]
     ELSE IF isDowngrade
     THEN LET w1 == ReleaseActiveSchedules(w, id)
          IN IF apply = "ok" /\ cur.status # "canceled" /\ w1.nextSched <= MaxScheds
             THEN [ok |-> TRUE, w |-> StripeSchedule(w1, id, newPriceId), sub |-> cur,
                   scheduled |-> TRUE, scheduleId |-> w1.nextSched,
                   effectiveDate |-> cur.period]
             ELSE [none EXCEPT !.w = [w1 EXCEPT !.mut = @ + 1]]
     ELSE IF apply = "ok" /\ cur.status # "canceled"
          THEN LET w1 == StripeUpdatePrice(w, id, newPriceId)
               IN [none EXCEPT !.ok = TRUE, !.w = w1, !.sub = w1.subs[id]]
          ELSE [none EXCEPT !.w = [w EXCEPT !.mut = @ + 1]]

\* ------------------------------------------ controller: updateSubscriptionPlan
FreeSetupIds(w) == {s \in SetupIds : w.setup[s].status = "none"}

\* stripeService.createSetupSession with metadata.pendingUpgradeTo; the
\* call fails when the processor cannot create the session.
SetupRequired(w, planType) ==
  IF FreeSetupIds(w) = {}
  THEN Resp(w, "SETUP_SESSION_ERROR", "", 500)
  ELSE LET s == CHOOSE x \in FreeSetupIds(w) : TRUE
       IN Resp([w EXCEPT !.setup[s] = [status |-> "open", pendingUpgradeTo |-> planType]],
               "PAYMENT_METHOD_REQUIRED", "", 402)

\* catch block of the controller: a processor error about a missing
\* payment source becomes the setup-session answer, any other a 500.
UpdateFailed(w, planType, apply) ==
  IF apply = "nopm" /\ FreeSetupIds(w) # {}
  THEN SetupRequired(w, planType)
  ELSE Resp(w, "SUBSCRIPTION_UPDATE_ERROR", "", 500)

\* lines 478-498: release the schedule of a pending downgrade.
ReleasePending(w, relOk) ==
  IF w.doc.metadata.scheduleId # 0
  THEN IF relOk /\ CanRelease(w, w.doc.metadata.scheduleId)
       THEN Save([StripeRelease(w, w.doc.metadata.scheduleId) EXCEPT !.doc.metadata = NoPending])
       ELSE [w EXCEPT !.mut = @ + 1]
  ELSE w

\* ApplyPlanChange without the canceled-subscription branch: the change is
\* applied to the record's subscription whatever its status.
ApplyPlanChange_UpdatesCanceled(w, planType, isUpgrade, getOk, apply) ==
  LET id == w.doc.stripeSubscriptionId
      newPriceId == getPriceIdForPlan(planType)
      u == stripeUpdateSubscriptionPlan(w, id, newPriceId, ~isUpgrade, apply)
  IN IF ~u.ok THEN UpdateFailed(u.w, planType, apply)
     ELSE IF ~isUpgrade /\ u.scheduled
     THEN Resp(Save([u.w EXCEPT !.doc.metadata =
                       [pendingPlanChange |-> planType,
                        pendingChangeDate |-> u.effectiveDate,
                        scheduleId |-> u.scheduleId]]),
               "downgrade", "scheduled", 200)
     ELSE LET p == removeIncompatibleAddOns(u.w, planType, ADDONS, TRUE)
              w2 == Save([p.w EXCEPT !.doc.planType = planType,
                                     !.doc.stripePriceId = newPriceId,
                                     !.doc.status = u.sub.status,
                                     !.doc.currentPeriodEnd = u.sub.period])
          IN Resp(SpaceCall(w2, "update", planType, formatAddOnsForSpace(p.remainingAddOns)),
                  IF isUpgrade THEN "upgrade" ELSE "downgrade", "updated", 200)

\* lines 609-813: the canceled-subscription branch, the scheduled downgrade
\* and the immediate update.
ApplyPlanChange(w, planType, isUpgrade, getOk, apply) ==
  LET id == w.doc.stripeSubscriptionId
      newPriceId == getPriceIdForPlan(planType)
  IN IF getOk /\ w.subs[id].status = "canceled"
     THEN LET p == removeIncompatibleAddOns(w, planType, ADDONS, TRUE)
          IN IF apply = "ok" /\ p.w.nextSub <= MaxSubs
             THEN LET w1 == StripeCreate(p.w, newPriceId)
                      new == w1.subs[p.w.nextSub]
                      w2 == Save([w1 EXCEPT !.doc.stripeSubscriptionId = p.w.nextSub,
                                            !.doc.stripePriceId = newPriceId,
                                            !.doc.planType = planType,
                                            !.doc.status = new.status,
                                            !.doc.currentPeriodEnd = new.period,
                                            !.doc.metadata = NoPending])
                  IN Resp(SpaceCall(w2, "update", planType, formatAddOnsForSpace(p.remainingAddOns)),
                          "new_subscription", "created", 200)
             ELSE UpdateFailed([p.w EXCEPT !.mut = @ + 1], planType, apply)
     ELSE LET u == stripeUpdateSubscriptionPlan(w, id, newPriceId, ~isUpgrade, apply)
          IN IF ~u.ok THEN UpdateFailed(u.w, planType, apply)
             ELSE IF ~isUpgrade /\ u.scheduled
             THEN Resp(Save([u.w EXCEPT !.doc.metadata =
                               [pendingPlanChange |-> planType,
                                pendingChangeDate |-> u.effectiveDate,
                                scheduleId |-> u.scheduleId]]),
                       "downgrade", "scheduled", 200)
             ELSE LET p == removeIncompatibleAddOns(u.w, planType, ADDONS, TRUE)
                      w2 == Save([p.w EXCEPT !.doc.planType = planType,
                                             !.doc.stripePriceId = newPriceId,
                                             !.doc.status = u.sub.status,
                                             !.doc.currentPeriodEnd = u.sub.period])
                  IN Resp(SpaceCall(w2, "update", planType, formatAddOnsForSpace(p.remainingAddOns)),
                          IF isUpgrade THEN "upgrade" ELSE "downgrade", "updated", 200)

updateSubscriptionPlan(w, planType, prorationBehavior, relOk, setOk, getOk, apply) ==
  IF planType = "" THEN Resp(w, "MISSING_PLAN_TYPE", "", 400)
  ELSE IF planType \notin getValidPlans THEN Resp(w, "INVALID_PLAN_TYPE", "", 400)
  ELSE IF prorationBehavior \notin validProrationBehaviors
  THEN Resp(w, "INVALID_PRORATION_BEHAVIOR", "", 400)
  ELSE IF ~w.doc.exists THEN Resp(w, "SUBSCRIPTION_NOT_FOUND", "", 404)
  ELSE IF w.doc.stripeSubscriptionId = 0 THEN Resp(w, "NO_STRIPE_SUBSCRIPTION", "", 400)
  ELSE IF w.doc.planType = planType THEN Resp(w, "SAME_PLAN", "", 400)
  ELSE LET cmp == comparePlans(w.doc.planType, planType)
           w1 == ReleasePending(w, relOk)
           needsMethod == cmp.isUpgrade /\ cmp.newPrice > 0 /\ ~w1.cust.hasDefault
       IN IF needsMethod /\ ~w1.cust.attachable
          THEN SetupRequired(w1, planType)
          ELSE ApplyPlanChange(IF ~needsMethod THEN w1
                               ELSE IF setOk THEN StripeSetDefault(w1)
                               ELSE [w1 EXCEPT !.mut = @ + 1],
                               planType, cmp.isUpgrade, getOk, apply)

\* ------------------------------------------------- controller: completeUpgrade
\* stripeService.getSetupSession: the session as the processor returns it.
\* paymentMethod tells whether its setup intent carries a payment method,
\* which a completed setup session does.
getSetupSession(w, sid) ==
  [status |-> w.setup[sid].status,
   paymentMethod |-> w.setup[sid].status = "complete",
   pendingUpgradeTo |-> w.setup[sid].pendingUpgradeTo]

\* The open session of a subscription checkout, retrieved the same way: it
\* has no setup intent and its metadata names no pending upgrade.
CheckoutSession == [status |-> "open", paymentMethod |-> FALSE, pendingUpgradeTo |-> ""]

\* completeUpgrade setting the default method as soon as the session is
\* complete, before it looks for the payment method and the target plan.
completeUpgrade_DefaultFirst(w, session, setOk, apply) ==
  IF session.status = "none" THEN Resp(w, "COMPLETE_UPGRADE_ERROR", "", 500)
  ELSE IF session.status # "complete" THEN Resp(w, "SETUP_NOT_COMPLETE", "", 400)
  ELSE IF ~session.paymentMethod
  THEN Resp(StripeSetDefault(w), "NO_PAYMENT_METHOD", "", 400)
  ELSE IF session.pendingUpgradeTo = ""
  THEN Resp(StripeSetDefault(w), "NO_PENDING_UPGRADE", "", 400)
  ELSE Resp(StripeSetDefault(w), "COMPLETE_UPGRADE_ERROR", "", 500)

\* session is the setup session retrieved for the request's setupSessionId;
\* setOk and apply are the outcomes of setDefaultPaymentMethod and of the
\* processor's price update.
completeUpgrade(w, session, setOk, apply) ==
  IF session.status = "none" THEN Resp(w, "COMPLETE_UPGRADE_ERROR", "", 500)
  ELSE IF session.status # "complete" THEN Resp(w, "SETUP_NOT_COMPLETE", "", 400)
  ELSE IF ~session.paymentMethod THEN Resp(w, "NO_PAYMENT_METHOD", "", 400)
  ELSE IF session.pendingUpgradeTo = "" THEN Resp(w, "NO_PENDING_UPGRADE", "", 400)
  ELSE IF ~w.doc.exists \/ w.doc.stripeSubscriptionId = 0
  THEN Resp(w, "SUBSCRIPTION_NOT_FOUND", "", 404)
  ELSE IF ~setOk THEN Resp([w EXCEPT !.mut = @ + 1], "SET_PAYMENT_METHOD_ERROR", "", 500)
  ELSE LET pendingUpgradeTo == session.pendingUpgradeTo
           newPriceId == getPriceIdForPlan(pendingUpgradeTo)
           u == stripeUpdateSubscriptionPlan(StripeSetDefault(w), w.doc.stripeSubscriptionId,
                                             newPriceId, FALSE, apply)
       IN IF ~u.ok THEN Resp(u.w, "COMPLETE_UPGRADE_ERROR", "", 500)
          ELSE LET w1 == Save([u.w EXCEPT !.doc.planType = pendingUpgradeTo,
                                          !.doc.stripePriceId = newPriceId,
                                          !.doc.status = u.sub.status,
                                          !.doc.currentPeriodEnd = u.sub.period])
               IN Resp(SpaceCall(w1, "update", pendingUpgradeTo, NoAddOns), "completed", "", 200)

\* ---------------------------------------------- controller: cancelSubscription
\* cancelOk, createOk and spaceOk are the outcomes of the processor's
\* cancel call, of createFreeSubscription and of cancelSpaceContract.
\* cancelSubscription up to its first save: the subscription is canceled
\* at the processor and the record saved with its status.  next tells
\* whether the handler goes on, st is the subscription the processor returned.
cancelAtProcessor(w, immediate, cancelOk) ==
  IF ~w.doc.exists \/ w.doc.stripeSubscriptionId = 0
  THEN [next |-> FALSE, st |-> NoSub, r |-> Resp(w, "SUBSCRIPTION_NOT_FOUND", "", 404)]
  ELSE LET id == w.doc.stripeSubscriptionId
       IN IF ~cancelOk \/ w.subs[id].status \in {"none", "canceled"}
          THEN [next |-> FALSE, st |-> NoSub,
                r |-> Resp([w EXCEPT !.mut = @ + 1], "SUBSCRIPTION_CANCEL_ERROR", "", 500)]
          ELSE LET w1 == IF immediate THEN StripeCancel(w, id)
                         ELSE StripeSetCancelAtPeriodEnd(w, id)
                   st == w1.subs[id]
                   w2 == Save([w1 EXCEPT !.doc.status = st.status,
                                         !.doc.cancelAtPeriodEnd = (st.cape \/ immediate),
                                         !.doc.canceledAt = TRUE])
               IN [next |-> TRUE, st |-> st, r |-> Resp(w2, "", "", 0)]

\* cancelSubscription after its first save, on the document it holds: the
\* free subscription is created and the record repointed at it.
provisionAfterCancel(w2, st, immediate, createOk, spaceOk) ==
  IF ~immediate
  THEN Resp(Save([w2 EXCEPT !.doc.cancelAtPeriodEnd = st.cape]),
            "cancel_at_period_end", "", 200)
  ELSE IF createOk /\ w2.nextSub <= MaxSubs
  THEN LET w3 == StripeCreate(w2, getPriceIdForPlan(FREE_PLAN))
           free == w3.subs[w2.nextSub]
           w4 == Save([w3 EXCEPT !.doc.stripeSubscriptionId = w2.nextSub,
                                 !.doc.stripePriceId = getPriceIdForPlan(FREE_PLAN),
                                 !.doc.planType = FREE_PLAN,
                                 !.doc.status = "active",
                                 !.doc.currentPeriodEnd = free.period,
                                 !.doc.cancelAtPeriodEnd = FALSE,
                                 !.doc.canceledAt = TRUE])
           w5 == SpaceCall(w4, "cancel", "BASIC", NoAddOns)
       IN IF spaceOk THEN Resp(w5, "canceled", "", 200)
          ELSE Resp(Save([w5 EXCEPT !.doc.status = st.status,
                                    !.doc.cancelAtPeriodEnd = TRUE]),
                    "FREE_SUBSCRIPTION_ERROR", "", 500)
  ELSE Resp(Save([w2 EXCEPT !.mut = @ + 1,
                            !.doc.status = st.status,
                            !.doc.cancelAtPeriodEnd = TRUE]),
            "FREE_SUBSCRIPTION_ERROR", "", 500)

cancelSubscription(w, immediate, cancelOk, createOk, spaceOk) ==
  LET a == cancelAtProcessor(w, immediate, cancelOk)
  IN IF a.next THEN provisionAfterCancel(a.r.w, a.st, immediate, createOk, spaceOk)
     ELSE a.r

\* ------------------------------------------------------- getOrCreateCustomer
\* stripeService.getOrCreateCustomer: the customer found under the email,
\* or a new one created under it; ok is the outcome of the processor calls.
getOrCreateCustomer(w, email, ok) ==
  IF ~ok THEN [ok |-> FALSE, w |-> w]
  ELSE IF email \in w.cust.emails THEN [ok |-> TRUE, w |-> w]
  ELSE [ok |-> TRUE, w |-> [w EXCEPT !.cust.emails = @ \cup {email}, !.mut = @ + 1]]

\* ---------------------------------------------- controller: createFreeContract
\* Free provisioning, called when a user registers: entitlement contract,
\* customer, free subscription, then the record (upsert).  spaceOk, custOk,
\* createOk and saveOk are the outcomes of those four calls.
createFreeContract(w, plan, email, spaceOk, custOk, createOk, saveOk) ==
  IF plan = "" THEN Resp(w, "MISSING_REQUIRED_FIELDS", "", 400)
  ELSE IF plan # FREE_PLAN THEN Resp(w, "INVALID_PLAN", "", 400)
  ELSE LET w1 == SpaceCall(w, "create", plan, NoAddOns)
           c == getOrCreateCustomer(w1, email, custOk)
           freePriceId == getPriceIdForPlan(FREE_PLAN)
       IN IF ~spaceOk THEN Resp(w1, "CONTRACT_ERROR", "", 500)
          ELSE IF ~c.ok THEN Resp(c.w, "CONTRACT_ERROR", "", 500)
          ELSE IF ~(createOk /\ c.w.nextSub <= MaxSubs)
          THEN Resp([c.w EXCEPT !.mut = @ + 1], "CONTRACT_ERROR", "", 500)
          ELSE LET w2 == StripeCreate(c.w, freePriceId)
                   free == w2.subs[c.w.nextSub]
               IN IF ~saveOk THEN Resp(w2, "CONTRACT_ERROR", "", 500)
                  ELSE Resp([w2 EXCEPT !.rec = [w2.doc EXCEPT
                                                  !.exists = TRUE,
                                                  !.planType = FREE_PLAN,
                                                  !.status = "active",
                                                  !.stripeSubscriptionId = c.w.nextSub,
                                                  !.stripePriceId = freePriceId,
                                                  !.currentPeriodEnd = free.period,
                                                  !.cancelAtPeriodEnd = FALSE]],
                            "created", "", 200)

\* ------------------------------------------- controller: createCheckoutSession
\* createCheckoutSession looking the customer up before it validates the
\* plan.
createCheckoutSession_CustomerFirst(w, planType, email, custOk, sessOk) ==
  LET c == getOrCreateCustomer(w, email, custOk)
  IN IF ~c.ok THEN Resp(c.w, "CHECKOUT_SESSION_ERROR", "", 500)
     ELSE IF planType = "" THEN Resp(c.w, "MISSING_PLAN_TYPE", "", 400)
     ELSE IF planType \notin getValidPlans THEN Resp(c.w, "INVALID_PLAN_TYPE", "", 400)
     ELSE IF c.w.doc.exists /\ isActive(c.w.doc)
     THEN Resp(c.w, "SUBSCRIPTION_ALREADY_EXISTS", "", 409)
     ELSE IF ~sessOk
     THEN Resp([c.w EXCEPT !.mut = @ + 1], "CHECKOUT_SESSION_ERROR", "", 500)
     ELSE Resp([c.w EXCEPT !.mut = @ + 1,
                           !.checkout = getPriceIdForPlan(planType),
                           !.rec = [c.w.doc EXCEPT !.exists = TRUE,
                                                   !.planType = planType,
                                                   !.status = "incomplete"]],
               "checkout", "", 200)

\* email is the email of the request (req.body.email, or the default made
\* from the username); custOk and sessOk are the outcomes of
\* getOrCreateCustomer and of stripeService.createCheckoutSession.
createCheckoutSession(w, planType, email, custOk, sessOk) ==
  IF planType = "" THEN Resp(w, "MISSING_PLAN_TYPE", "", 400)
  ELSE IF planType \notin getValidPlans THEN Resp(w, "INVALID_PLAN_TYPE", "", 400)
  ELSE LET c == getOrCreateCustomer(w, email, custOk)
       IN IF ~c.ok THEN Resp(c.w, "CHECKOUT_SESSION_ERROR", "", 500)
          ELSE IF c.w.doc.exists /\ isActive(c.w.doc)
          THEN Resp(c.w, "SUBSCRIPTION_ALREADY_EXISTS", "", 409)
          ELSE IF ~sessOk
          THEN Resp([c.w EXCEPT !.mut = @ + 1], "CHECKOUT_SESSION_ERROR", "", 500)
          ELSE Resp([c.w EXCEPT !.mut = @ + 1,
                                !.checkout = getPriceIdForPlan(planType),
                                !.rec = [c.w.doc EXCEPT !.exists = TRUE,
                                                        !.planType = planType,
                                                        !.status = "incomplete"]],
                    "checkout", "", 200)

\* --------------------------------------------------------- addon purchase
\* POST /addons/purchase.  The checks and their order are those of the
\* service's description of purchase; the error codes and HTTP statuses are
\* those the route's tests expect.  itemOk is the outcome of creating the
\* billing item.
completePurchase(w, addonName, itemOk) ==
  IF ~w.cust.hasDefault /\ ~w.cust.attachable THEN SetupRequired(w, "")
  ELSE LET w1 == [(IF w.cust.hasDefault THEN w ELSE StripeSetDefault(w)) EXCEPT !.mut = @ + 1]
       IN IF ~itemOk THEN Resp(w1, "ADDON_PURCHASE_ERROR", "", 500)
          ELSE LET w2 == Save([w1 EXCEPT !.doc.activeAddOns =
                                 Append(@, [name |-> addonName, status |-> "active"])])
                   names == SelectSeq(SeqNames(w2.doc.activeAddOns),
                                      LAMBDA n : n \in ActiveNames(w2.doc.activeAddOns))
               IN Resp(SpaceCall(w2, "update", w2.doc.planType, formatAddOnsForSpace(names)),
                       "purchased", "", 200)

\* purchaseAddOn looking at the addon's availability for the plan before
\* looking at the record's status.
purchaseAddOn_AvailabilityFirst(w, addonName, itemOk) ==
  IF addonName = "" THEN Resp(w, "MISSING_ADDON_NAME", "", 400)
  ELSE IF addonName \notin ADDONS THEN Resp(w, "INVALID_ADDON", "", 400)
  ELSE IF ~w.doc.exists THEN Resp(w, "SUBSCRIPTION_NOT_FOUND", "", 404)
  ELSE IF ~isAddOnAvailableForPlan(addonName, w.doc.planType)
  THEN Resp(w, "ADDON_NOT_AVAILABLE", "", 400)
  ELSE IF ~isActive(w.doc) THEN Resp(w, "SUBSCRIPTION_NOT_ACTIVE", "", 400)
  ELSE IF addonName \in ActiveNames(w.doc.activeAddOns)
  THEN Resp(w, "ADDON_ALREADY_ACTIVE", "", 400)
  ELSE IF w.doc.stripeSubscriptionId = 0 THEN Resp(w, "NO_STRIPE_SUBSCRIPTION", "", 400)
  ELSE completePurchase(w, addonName, itemOk)

purchaseAddOn(w, addonName, itemOk) ==
  IF addonName = "" THEN Resp(w, "MISSING_ADDON_NAME", "", 400)
  ELSE IF addonName \notin ADDONS THEN Resp(w, "INVALID_ADDON", "", 400)
  ELSE IF ~w.doc.exists THEN Resp(w, "SUBSCRIPTION_NOT_FOUND", "", 404)
  ELSE IF ~isActive(w.doc) THEN Resp(w, "SUBSCRIPTION_NOT_ACTIVE", "", 400)
  ELSE IF ~isAddOnAvailableForPlan(addonName, w.doc.planType)
  THEN Resp(w, "ADDON_NOT_AVAILABLE", "", 400)
  ELSE IF addonName \in ActiveNames(w.doc.activeAddOns)
  THEN Resp(w, "ADDON_ALREADY_ACTIVE", "", 400)
  ELSE IF w.doc.stripeSubscriptionId = 0 THEN Resp(w, "NO_STRIPE_SUBSCRIPTION", "", 400)
  ELSE completePurchase(w, addonName, itemOk)

\* ----------------------------------------------------------- webhook handlers
\* A handler's result: the world it leaves, whether it threw (the endpoint
\* then answers 400), whether every step of it succeeded (full) and, for
\* subscription-deleted, whether its try block completed (prov).
Done(w, full) == [w |-> w, threw |-> FALSE, full |-> full, prov |-> FALSE]
Threw(w) == [w |-> w, threw |-> TRUE, full |-> FALSE, prov |-> FALSE]

handleCheckoutCompleted(w, e, readOk, s1) ==
  IF ~readOk \/ w.subs[e.sub].status = "none" THEN Threw(w)
  ELSE LET st == w.subs[e.sub]
           planType == getPlanTypeFromPriceId(st.price)
       IN IF ~s1 THEN Threw(w)
          ELSE Done(SpaceCall([w EXCEPT !.rec = [w.doc EXCEPT !.exists = TRUE,
                                                              !.stripeSubscriptionId = e.sub,
                                                              !.stripePriceId = st.price,
                                                              !.status = st.status,
                                                              !.planType = planType,
                                                              !.cancelAtPeriodEnd = FALSE,
                                                              !.currentPeriodEnd = st.period]],
                              "create", planType, NoAddOns), TRUE)

\* handleSubscriptionUpdated taking the payload's period end as an extension
\* of the stored one.
handleSubscriptionUpdated_ExtendsPeriod(w, e, s1) ==
  IF ~w.doc.exists THEN Done(w, TRUE)
  ELSE IF ~s1 THEN Threw(w)
  ELSE Done(Save([w EXCEPT !.doc.stripeSubscriptionId = e.sub,
                           !.doc.stripePriceId = e.price,
                           !.doc.status = e.status,
                           !.doc.planType = getPlanTypeFromPriceId(e.price),
                           !.doc.currentPeriodEnd = @ + e.period,
                           !.doc.cancelAtPeriodEnd = e.cape]), TRUE)

\* The record is looked up by subscription ref or, failing that, by
\* customer ref; every subscription of the model belongs to the user's
\* customer, so the lookup finds the record whenever it exists.
handleSubscriptionUpdated(w, e, s1) ==
  IF ~w.doc.exists THEN Done(w, TRUE)
  ELSE IF ~s1 THEN Threw(w)
  ELSE LET planType == getPlanTypeFromPriceId(e.price)
           w1 == Save([w EXCEPT !.doc.stripeSubscriptionId = e.sub,
                                !.doc.stripePriceId = e.price,
                                !.doc.status = e.status,
                                !.doc.planType = planType,
                                !.doc.currentPeriodEnd = e.period,
                                !.doc.cancelAtPeriodEnd = e.cape])
       IN Done(IF e.status = "active" THEN SpaceCall(w1, "update", planType, NoAddOns) ELSE w1, TRUE)

\* handleSubscriptionDeleted looking the record up by customer, as
\* handleSubscriptionUpdated does: the record is found whatever subscription
\* it references.
handleSubscriptionDeleted_ByCustomer(w, e, createOk, s1, s2) ==
  IF ~w.doc.exists THEN Done(w, TRUE)
  ELSE LET created == createOk /\ w.nextSub <= MaxSubs
           w1 == IF created THEN StripeCreate(w, getPriceIdForPlan(FREE_PLAN))
                 ELSE [w EXCEPT !.mut = @ + 1]
           w2 == IF created
                 THEN [w1 EXCEPT !.doc.stripeSubscriptionId = w.nextSub,
                                 !.doc.stripePriceId = getPriceIdForPlan(FREE_PLAN),
                                 !.doc.planType = FREE_PLAN,
                                 !.doc.status = "active",
                                 !.doc.currentPeriodEnd = w1.subs[w.nextSub].period,
                                 !.doc.cancelAtPeriodEnd = FALSE,
                                 !.doc.canceledAt = TRUE]
                 ELSE w1
       IN IF created /\ s1
          THEN [Done(SpaceCall(Save(w2), "cancel", "BASIC", NoAddOns), TRUE) EXCEPT !.prov = TRUE]
          ELSE IF s2
          THEN Done(SpaceCall(Save([w2 EXCEPT !.doc.status = "canceled",
                                              !.doc.canceledAt = TRUE]),
                              "cancel", "BASIC", NoAddOns), FALSE)
          ELSE Threw(w2)

\* handleSubscriptionDeleted whose catch block only logs: the record is
\* saved as the try block left it, without the canceled mark.
handleSubscriptionDeleted_NoCancelMark(w, e, createOk, s1, s2) ==
  IF ~w.doc.exists \/ w.doc.stripeSubscriptionId # e.sub THEN Done(w, TRUE)
  ELSE LET created == createOk /\ w.nextSub <= MaxSubs
           w1 == IF created THEN StripeCreate(w, getPriceIdForPlan(FREE_PLAN))
                 ELSE [w EXCEPT !.mut = @ + 1]
           w2 == IF created
                 THEN [w1 EXCEPT !.doc.stripeSubscriptionId = w.nextSub,
                                 !.doc.stripePriceId = getPriceIdForPlan(FREE_PLAN),
                                 !.doc.planType = FREE_PLAN,
                                 !.doc.status = "active",
                                 !.doc.currentPeriodEnd = w1.subs[w.nextSub].period,
                                 !.doc.cancelAtPeriodEnd = FALSE,
                                 !.doc.canceledAt = TRUE]
                 ELSE w1
       IN IF created /\ s1
          THEN [Done(SpaceCall(Save(w2), "cancel", "BASIC", NoAddOns), TRUE) EXCEPT !.prov = TRUE]
          ELSE IF s2
          THEN Done(SpaceCall(Save(w2), "cancel", "BASIC", NoAddOns), FALSE)
          ELSE Threw(w2)

\* handleSubscriptionDeleted downgrading the entitlement contract inside
\* its try block: the downgrade is requested only once the replacement
\* subscription is provisioned and saved.
handleSubscriptionDeleted_DowngradeOnProvision(w, e, createOk, s1, s2) ==
  IF ~w.doc.exists \/ w.doc.stripeSubscriptionId # e.sub THEN Done(w, TRUE)
  ELSE LET created == createOk /\ w.nextSub <= MaxSubs
           w1 == IF created THEN StripeCreate(w, getPriceIdForPlan(FREE_PLAN))
                 ELSE [w EXCEPT !.mut = @ + 1]
           w2 == IF created
                 THEN [w1 EXCEPT !.doc.stripeSubscriptionId = w.nextSub,
                                 !.doc.stripePriceId = getPriceIdForPlan(FREE_PLAN),
                                 !.doc.planType = FREE_PLAN,
                                 !.doc.status = "active",
                                 !.doc.currentPeriodEnd = w1.subs[w.nextSub].period,
                                 !.doc.cancelAtPeriodEnd = FALSE,
                                 !.doc.canceledAt = TRUE]
                 ELSE w1
       IN IF created /\ s1
          THEN [Done(SpaceCall(Save(w2), "cancel", "BASIC", NoAddOns), TRUE) EXCEPT !.prov = TRUE]
          ELSE IF s2
          THEN Done(Save([w2 EXCEPT !.doc.status = "canceled", !.doc.canceledAt = TRUE]), FALSE)
          ELSE Threw(w2)

handleSubscriptionDeleted(w, e, createOk, s1, s2) ==
  IF ~w.doc.exists \/ w.doc.stripeSubscriptionId # e.sub THEN Done(w, TRUE)
  ELSE LET created == createOk /\ w.nextSub <= MaxSubs
           w1 == IF created THEN StripeCreate(w, getPriceIdForPlan(FREE_PLAN))
                 ELSE [w EXCEPT !.mut = @ + 1]
           w2 == IF created
                 THEN [w1 EXCEPT !.doc.stripeSubscriptionId = w.nextSub,
                                 !.doc.stripePriceId = getPriceIdForPlan(FREE_PLAN),
                                 !.doc.planType = FREE_PLAN,
                                 !.doc.status = "active",
                                 !.doc.currentPeriodEnd = w1.subs[w.nextSub].period,
                                 !.doc.cancelAtPeriodEnd = FALSE,
                                 !.doc.canceledAt = TRUE]
                 ELSE w1
       IN IF created /\ s1
          THEN [Done(SpaceCall(Save(w2), "cancel", "BASIC", NoAddOns), TRUE) EXCEPT !.prov = TRUE]
          ELSE IF s2
          THEN Done(SpaceCall(Save([w2 EXCEPT !.doc.status = "canceled",
                                              !.doc.canceledAt = TRUE]),
                              "cancel", "BASIC", NoAddOns), FALSE)
          ELSE Threw(w2)

handlePaymentSucceeded(w, e, s1) ==
  IF e.sub = 0 \/ ~w.doc.exists \/ w.doc.stripeSubscriptionId # e.sub THEN Done(w, TRUE)
  ELSE IF w.doc.status = "active" THEN Done(w, TRUE)
  ELSE IF ~s1 THEN Threw(w)
  ELSE Done(Save([w EXCEPT !.doc.status = "active"]), TRUE)

\* handlePaymentFailed giving up on the subscription: it is canceled at the
\* processor and the record marked canceled.
handlePaymentFailed_CancelsSubscription(w, e, s1) ==
  IF e.sub = 0 \/ ~w.doc.exists \/ w.doc.stripeSubscriptionId # e.sub THEN Done(w, TRUE)
  ELSE IF ~s1 THEN Threw(w)
  ELSE Done(Save([StripeCancel(w, e.sub) EXCEPT !.doc.status = "canceled"]), TRUE)

handlePaymentFailed(w, e, s1) ==
  IF e.sub = 0 \/ ~w.doc.exists \/ w.doc.stripeSubscriptionId # e.sub THEN Done(w, TRUE)
  ELSE IF ~s1 THEN Threw(w)
  ELSE Done(Save([w EXCEPT !.doc.status = "past_due"]), TRUE)

handleScheduleCompleted(w, e, readOk, s1, s2) ==
  IF e.sub = 0 THEN Done(w, TRUE)
  ELSE IF ~readOk \/ w.subs[e.sub].status = "none" THEN Threw(w)
  ELSE IF ~w.doc.exists THEN Done(w, TRUE)
  ELSE LET st == w.subs[e.sub]
           planType == getPlanTypeFromPriceId(st.price)
           p == removeIncompatibleAddOns(w, planType, ADDONS, s1)
           lastSaveOk == IF p.saved THEN s2 ELSE s1
       IN IF p.threw \/ ~lastSaveOk THEN Threw(p.w)
          ELSE Done(SpaceCall(Save([p.w EXCEPT !.doc.planType = planType,
                                               !.doc.stripePriceId = st.price,
                                               !.doc.status = st.status,
                                               !.doc.currentPeriodEnd = st.period,
                                               !.doc.metadata = NoPending]),
                              "update", planType, formatAddOnsForSpace(p.remainingAddOns)),
                    TRUE)

HandledTypes ==
  {"checkout.session.completed", "customer.subscription.created",
   "customer.subscription.updated", "customer.subscription.deleted",
   "invoice.payment_succeeded", "invoice.payment_failed",
   "subscription_schedule.completed", "subscription_schedule.released"}

\* handleWebhook's switch on event.type.
dispatch(w, e, readOk, createOk, s1, s2) ==
  CASE e.type = "checkout.session.completed" -> handleCheckoutCompleted(w, e, readOk, s1)
    [] e.type \in {"customer.subscription.created", "customer.subscription.updated"} ->
         handleSubscriptionUpdated(w, e, s1)
    [] e.type = "customer.subscription.deleted" ->
         handleSubscriptionDeleted(w, e, createOk, s1, s2)
    [] e.type = "invoice.payment_succeeded" -> handlePaymentSucceeded(w, e, s1)
    [] e.type = "invoice.payment_failed" -> handlePaymentFailed(w, e, s1)
    [] e.type \in {"subscription_schedule.completed", "subscription_schedule.released"} ->
         handleScheduleCompleted(w, e, readOk, s1, s2)
    [] OTHER -> Done(w, TRUE)

\* The emails a request can carry: the one the user registered with and
\* another one.
Emails == {"main", "alt"}

\* ------------------------------------------------ collection and consumer
\* docs is the subscriptions collection, a document per _id; a document
\* whose userId is "" is absent.  reqs holds the requests and webhook
\* deliveries whose findOneAndUpdate is in flight, sessions the checkout
\* sessions handed to users, spaceLog the entitlement calls and dlq the
\* dead-letter messages issued by the last step.
Users == {"u1", "u2"}
\* The users whose requests the runs follow.
Callers == {"u1"}
\* Every request inserts at most one document; one more document is in
\* the collection from the start.
DocIds == 1..(MaxRequests + 1)
ReqIds == 1..MaxRequests

\* A customer of the processor is identified by the email it was created
\* under; a subscription by its customer and plan.
Customer(userId, email) == <<userId, email>>
SubRef(customer, plan) == <<customer, plan>>

\* A document holding the schema's defaults only.
NoDoc ==
  [userId |-> "", username |-> "", email |-> "", stripeCustomerId |-> <<>>,
   stripeSubscriptionId |-> <<>>, stripePriceId |-> "", status |-> "incomplete",
   planType |-> "FREE"]

NoReq == [pc |-> "idle", kind |-> "", userId |-> "", update |-> <<>>, matched |-> 0]

Matching(ds, userId) == {d \in DocIds : ds[d].userId = userId}
Min(S) == CHOOSE x \in S : \A y \in S : x <= y

\* The document d with the fields of update set.
SetFields(d, update) ==
  [f \in DOMAIN NoDoc |-> IF f \in DOMAIN update THEN update[f] ELSE d[f]]

\* The unique index on stripeCustomerId admits document d at _id i.
CustomerUnique(ds, i, d) ==
  \A j \in DocIds \ {i} : ds[j].userId = "" \/ ds[j].stripeCustomerId # d.stripeCustomerId

\* The fields createCheckoutSession upserts.
CheckoutUpdate(userId, email, planType) ==
  [userId |-> userId, username |-> userId, email |-> email,
   stripeCustomerId |-> Customer(userId, email), planType |-> planType,
   status |-> "incomplete"]

\* The fields createFreeContract upserts.
FreeUpdate(userId, email) ==
  [userId |-> userId, username |-> userId, email |-> email,
   planType |-> FREE_PLAN, status |-> "active",
   stripeCustomerId |-> Customer(userId, email),
   stripeSubscriptionId |-> SubRef(Customer(userId, email), FREE_PLAN),
   stripePriceId |-> getPriceIdForPlan(FREE_PLAN)]

\* The fields handleCheckoutCompleted upserts for the session s, whose
\* subscription is active on the price paid.
CompletedUpdate(s) ==
  [stripeCustomerId |-> s.customer,
   stripeSubscriptionId |-> SubRef(s.customer, s.plan),
   stripePriceId |-> getPriceIdForPlan(s.plan), status |-> "active",
   planType |-> getPlanTypeFromPriceId(getPriceIdForPlan(s.plan))]

\* createCheckoutSession up to its upsert: 409 when the user has an active
\* document, else the session is created and the upsert is issued.
CreateCheckoutSessionStart(r) ==
  /\ reqs[r].pc = "idle" /\ \A q \in ReqIds : q < r => reqs[q].pc # "idle"
  /\ \E userId \in Callers, email \in Emails, planType \in {"PRO"} :
       reqs' = [reqs EXCEPT ![r] =
                  IF \E d \in Matching(docs, userId) : isActive(docs[d])
                  THEN [NoReq EXCEPT !.pc = "done", !.kind = "SUBSCRIPTION_ALREADY_EXISTS"]
                  ELSE [pc |-> "query", kind |-> "checkout", userId |-> userId,
                        update |-> CheckoutUpdate(userId, email, planType), matched |-> 0]]
  /\ spaceLog' = <<>> /\ dlq' = <<>>
  /\ UNCHANGED <<lifeVars, docs, sessions>>

\* createFreeContract up to its upsert.
CreateFreeContractStart(r) ==
  /\ reqs[r].pc = "idle" /\ \A q \in ReqIds : q < r => reqs[q].pc # "idle"
  /\ \E userId \in Callers, email \in Emails :
       /\ reqs' = [reqs EXCEPT ![r] =
                     [pc |-> "query", kind |-> "free", userId |-> userId,
                      update |-> FreeUpdate(userId, email), matched |-> 0]]
       /\ spaceLog' = <<[kind |-> "create", userId |-> userId, plan |-> FREE_PLAN]>>
  /\ dlq' = <<>>
  /\ UNCHANGED <<lifeVars, docs, sessions>>

NoSession == [userId |-> "", customer |-> <<>>, plan |-> ""]

\* handleCheckoutCompleted up to its upsert, for the completed session s: a
\* session without metadata.userId is dropped.
HandleCheckoutCompletedStart(r) ==
  /\ reqs[r].pc = "idle" /\ \A q \in ReqIds : q < r => reqs[q].pc # "idle"
  /\ \E s \in sessions, hasUserId \in BOOLEAN :
       reqs' = [reqs EXCEPT ![r] =
                  IF ~hasUserId THEN [NoReq EXCEPT !.pc = "done", !.kind = "dropped"]
                  ELSE [pc |-> "query", kind |-> "completed", userId |-> s.userId,
                        update |-> CompletedUpdate(s), matched |-> 0]]
  /\ spaceLog' = <<>> /\ dlq' = <<>>
  /\ UNCHANGED <<lifeVars, docs, sessions>>

\* findOneAndUpdate({userId}, update, {upsert: true}), query phase: the
\* first document of the user, if any.
UpsertQuery(r) ==
  /\ reqs[r].pc = "query"
  /\ LET m == Matching(docs, reqs[r].userId)
     IN reqs' = [reqs EXCEPT ![r].pc = "write",
                             ![r].matched = IF m = {} THEN 0 ELSE Min(m)]
  /\ spaceLog' = <<>> /\ dlq' = <<>>
  /\ UNCHANGED <<lifeVars, docs, sessions>>

\* The handler's steps after a successful upsert: the checkout session is
\* handed to the user; a completed checkout creates the entitlement contract.
AfterUpsert(r) ==
  LET q == reqs[r]
  IN /\ sessions' = IF q.kind = "checkout"
                    THEN sessions \cup {[userId |-> q.userId,
                                         customer |-> q.update.stripeCustomerId,
                                         plan |-> q.update.planType]}
                    ELSE sessions
     /\ spaceLog' = IF q.kind = "completed"
                    THEN <<[kind |-> "create", userId |-> q.userId,
                            plan |-> q.update.planType]>>
                    ELSE <<>>

\* The _ids no document holds.
Free(ds) == {d \in DocIds : ds[d].userId = ""}

\* The write of findOneAndUpdate(filter, update, {upsert: true}) once its
\* query has matched the document matched (0: none): the collection it
\* leaves, and whether the unique index on stripeCustomerId admitted it.
findOneAndUpdate(ds, matched, userId, update) ==
  LET i == IF matched # 0 THEN matched ELSE Min(Free(ds))
      d == SetFields(IF matched # 0 THEN ds[i] ELSE [NoDoc EXCEPT !.userId = userId],
                     update)
  IN IF CustomerUnique(ds, i, d) THEN [docs |-> [ds EXCEPT ![i] = d], ok |-> TRUE]
     ELSE [docs |-> ds, ok |-> FALSE]

\* findOneAndUpdate, write phase: the matched document is updated; without
\* a match a document is inserted, whatever has been inserted since the
\* query phase (no unique index on userId).  A write the unique index on
\* stripeCustomerId rejects fails the handler.
UpsertWrite(r) ==
  /\ reqs[r].pc = "write"
  /\ LET q == reqs[r]
         gone == q.matched # 0 /\ docs[q.matched].userId # q.userId
         u == findOneAndUpdate(docs, q.matched, q.userId, q.update)
     IN IF gone
        THEN /\ reqs' = [reqs EXCEPT ![r].pc = "query", ![r].matched = 0]
             /\ spaceLog' = <<>>
             /\ UNCHANGED <<docs, sessions>>
        ELSE /\ q.matched = 0 => Free(docs) # {}
             /\ IF u.ok
                THEN /\ docs' = u.docs
                     /\ reqs' = [reqs EXCEPT ![r] = [NoReq EXCEPT !.pc = "done"]]
                     /\ AfterUpsert(r)
                ELSE /\ reqs' = [reqs EXCEPT ![r] = [NoReq EXCEPT !.pc = "done",
                                                                !.kind = "E11000"]]
                     /\ spaceLog' = <<>>
                     /\ UNCHANGED <<docs, sessions>>
  /\ dlq' = <<>>
  /\ UNCHANGED lifeVars

\* handleCheckoutCompleted for the session s run without another request in
\* between its query and its write: the collection and the entitlement
\* calls it leaves, and whether it threw.
checkoutCompleted(ds, s, hasUserId) ==
  IF ~hasUserId THEN [docs |-> ds, spaceLog |-> <<>>, threw |-> FALSE]
  ELSE LET m == Matching(ds, s.userId)
           update == CompletedUpdate(s)
           u == findOneAndUpdate(ds, IF m = {} THEN 0 ELSE Min(m), s.userId, update)
       IN IF u.ok
          THEN [docs |-> u.docs,
                spaceLog |-> <<[kind |-> "create", userId |-> s.userId,
                                plan |-> update.planType]>>,
                threw |-> FALSE]
          ELSE [docs |-> ds, spaceLog |-> <<>>, threw |-> TRUE]

\* ---- the users-events consumer
\* The world processEvent works on.
Coll == [docs |-> docs, spaceLog |-> <<>>, dlq |-> <<>>, cancels |-> 0]

UserDeleted(userId) ==
  [parses |-> TRUE, type |-> "USER_DELETED", hasPayload |-> TRUE, userId |-> userId]

\* The messages the topic can carry: USER_DELETED for a user, USER_DELETED
\* without payload, an event of another kind, and a value that is no JSON.
Messages ==
  {UserDeleted(u) : u \in Users}
  \cup {[UserDeleted("") EXCEPT !.hasPayload = FALSE],
        [UserDeleted("u1") EXCEPT !.type = "USER_CREATED"],
        [UserDeleted("") EXCEPT !.parses = FALSE, !.type = "", !.hasPayload = FALSE]}

\* The loop over the documents found: cancelOk and deleteOk are the
\* documents whose processor cancellation and whose deleteOne succeed.
RECURSIVE deleteSubscriptions(_, _, _, _)
deleteSubscriptions(c, found, cancelOk, deleteOk) ==
  IF found = {} THEN c
  ELSE LET d == Min(found)
           hasRef == c.docs[d].stripeSubscriptionId # <<>>
           c1 == IF hasRef THEN [c EXCEPT !.cancels = @ + 1] ELSE c
           c2 == IF hasRef /\ d \notin cancelOk THEN c1
                 ELSE IF d \notin deleteOk THEN c1
                 ELSE [c1 EXCEPT !.docs[d] = NoDoc]
       IN deleteSubscriptions(c2, found \ {d}, cancelOk, deleteOk)

\* processEvent requesting the contract deletion inside the loop, once per
\* document found.
processEvent_DeletePerRecord(c, event, cancelOk, deleteOk) ==
  IF event.type = "USER_DELETED"
  THEN IF ~event.hasPayload THEN [c |-> c, threw |-> TRUE, error |-> "TypeError"]
       ELSE LET found == Matching(c.docs, event.userId)
                c1 == deleteSubscriptions(c, found, cancelOk, deleteOk)
                call == [kind |-> "delete", userId |-> event.userId, plan |-> ""]
            IN [c |-> [c1 EXCEPT !.spaceLog = [i \in 1..Cardinality(found) |-> call]],
                threw |-> FALSE, error |-> ""]
  ELSE [c |-> c, threw |-> FALSE, error |-> ""]

\* processEvent without the try inside the loop: the first document whose
\* cancellation or deleteOne fails ends the handler with its error, the
\* documents after it untouched and the contract deletion not requested.
processEvent_FailureEscapes(c, event, cancelOk, deleteOk) ==
  IF event.type = "USER_DELETED"
  THEN IF ~event.hasPayload THEN [c |-> c, threw |-> TRUE, error |-> "TypeError"]
       ELSE LET found == Matching(c.docs, event.userId)
                failing == {d \in found :
                              \/ c.docs[d].stripeSubscriptionId # <<>> /\ d \notin cancelOk
                              \/ d \notin deleteOk}
            IN IF failing = {}
               THEN LET c1 == deleteSubscriptions(c, found, cancelOk, deleteOk)
                    IN [c |-> [c1 EXCEPT !.spaceLog =
                                 Append(@, [kind |-> "delete", userId |-> event.userId,
                                            plan |-> ""])],
                        threw |-> FALSE, error |-> ""]
               ELSE [c |-> deleteSubscriptions(c, {d \in found : d <= Min(failing)},
                                               cancelOk, deleteOk),
                     threw |-> TRUE, error |-> "Error"]
  ELSE [c |-> c, threw |-> FALSE, error |-> ""]

processEvent(c, event, cancelOk, deleteOk) ==
  IF event.type = "USER_DELETED"
  THEN IF ~event.hasPayload THEN [c |-> c, threw |-> TRUE, error |-> "TypeError"]
       ELSE LET c1 == deleteSubscriptions(c, Matching(c.docs, event.userId),
                                          cancelOk, deleteOk)
            IN [c |-> [c1 EXCEPT !.spaceLog =
                         Append(@, [kind |-> "delete", userId |-> event.userId, plan |-> ""])],
                threw |-> FALSE, error |-> ""]
  ELSE [c |-> c, threw |-> FALSE, error |-> ""]

sendToDLQ(c, event, reason) ==
  [c EXCEPT !.dlq = Append(@, [originalEvent |-> event, error |-> reason])]

\* eachMessage sending only unparseable messages to the dead-letter topic:
\* an error of processEvent escapes to the consumer's runner.
eachMessage_HandlerErrorEscapes(c, message, cancelOk, deleteOk) ==
  IF ~message.parses
  THEN [c |-> sendToDLQ(c, message, "SyntaxError"), returned |-> TRUE]
  ELSE LET p == processEvent(c, message, cancelOk, deleteOk)
       IN [c |-> p.c, returned |-> ~p.threw]

\* eachMessage: what it leaves, and whether it returned to the consumer
\* loop without throwing.
eachMessage(c, message, cancelOk, deleteOk) ==
  IF ~message.parses
  THEN [c |-> sendToDLQ(c, message, "SyntaxError"), returned |-> TRUE]
  ELSE LET p == processEvent(c, message, cancelOk, deleteOk)
       IN [c |-> IF p.threw THEN sendToDLQ(p.c, message, p.error) ELSE p.c,
           returned |-> TRUE]

\* A message of the topic is consumed.  The cancellation fails for some of
\* the documents found (cancelFail) and deleteOne for some of the others.
EachMessage ==
  /\ \E message \in Messages :
       LET m == IF message.type = "USER_DELETED" /\ message.hasPayload
                THEN Matching(docs, message.userId) ELSE {}
       IN \E cancelFail \in SUBSET {d \in m : docs[d].stripeSubscriptionId # <<>>} :
            \E deleteFail \in SUBSET (m \ cancelFail) :
              LET e == eachMessage(Coll, message, DocIds \ cancelFail, DocIds \ deleteFail)
              IN /\ docs' = e.c.docs
                 /\ spaceLog' = e.c.spaceLog
                 /\ dlq' = e.c.dlq
  /\ UNCHANGED <<lifeVars, reqs, sessions>>

\* The document createFreeContract left when another user registered.
Registered(userId) == SetFields([NoDoc EXCEPT !.userId = userId], FreeUpdate(userId, "main"))

CollStart ==
  /\ docs = [d \in DocIds |-> IF d = MaxRequests + 1 THEN Registered("u2") ELSE NoDoc]
  /\ reqs = [r \in ReqIds |-> NoReq]
  /\ sessions = {}
  /\ spaceLog = <<>>
  /\ dlq = <<>>

CollNext ==
  \/ \E r \in ReqIds : CreateCheckoutSessionStart(r)
  \/ \E r \in ReqIds : CreateFreeContractStart(r)
  \/ \E r \in ReqIds : HandleCheckoutCompletedStart(r)
  \/ \E r \in ReqIds : UpsertQuery(r)
  \/ \E r \in ReqIds : UpsertWrite(r)
  \/ EachMessage

\* ------------------------------------------------------------------- state
Entry(name) == [name |-> name, status |-> "active"]

\* Addon lists a record can hold after purchases made on plan p: active
\* entries, in catalog order, of addons the catalog lists for p (of two
\* addons with the same availability, one).
InitAddOns(p) ==
  LET names == {a \in {"decoratives", "promotedBeat"} : isAddOnAvailableForPlan(a, p)}
      Ord(a) == CASE a = "decoratives" -> 1 [] a = "promotedBeat" -> 2 [] OTHER -> 3
  IN {<<>>}
     \cup (IF MaxAddOns >= 1 THEN {<<Entry(a)>> : a \in names} ELSE {})
     \cup (IF MaxAddOns >= 2
           THEN {<<Entry(pr[1]), Entry(pr[2])>> :
                   pr \in {q \in names \X names : Ord(q[1]) < Ord(q[2])}}
           ELSE {})

\* A record as free provisioning or a completed checkout followed by
\* purchases leaves it: subscription 1 is live at the processor on plan p.
Provisioned(p, addons) ==
  [NoRecord EXCEPT !.exists = TRUE, !.stripeSubscriptionId = 1,
                   !.stripePriceId = getStripePriceId(p), !.status = "active",
                   !.planType = p, !.currentPeriodEnd = 1, !.activeAddOns = addons]

\* The user's customer at the processor: emails holds the emails under
\* which a customer of the user exists.
HasMethod == [hasDefault |-> TRUE, attachable |-> TRUE, emails |-> {"main"}]
NoMethod == [hasDefault |-> FALSE, attachable |-> FALSE, emails |-> {"main"}]
NoCustomer == [hasDefault |-> FALSE, attachable |-> FALSE, emails |-> {}]

\* The service at rest, every event so far delivered, in one of four
\* situations: no record yet; a provisioned record; a provisioned record
\* with a downgrade to q scheduled (schedule 1); a provisioned record of a
\* customer without payment method whose upgrade to q awaits the setup
\* session 1.
Start ==
  /\ \E p \in PLANS, q \in PLANS : \E a \in InitAddOns(p) :
       \/ /\ rec = NoRecord
          /\ subs = [i \in SubIds |-> NoSub]
          /\ nextSub = 1
          /\ scheds = [sc \in SchedIds |-> NoSched]
          /\ nextSched = 1
          /\ cust \in {HasMethod, NoCustomer}
          /\ setup = [s \in SetupIds |-> NoSetup]
       \/ /\ subs = [i \in SubIds |->
                       IF i = 1 THEN [status |-> "active", price |-> getStripePriceId(p),
                                      period |-> 1, cape |-> FALSE]
                       ELSE NoSub]
          /\ nextSub = 2
          /\ \/ /\ rec = Provisioned(p, a)
                /\ scheds = [sc \in SchedIds |-> NoSched]
                /\ nextSched = 1
                /\ cust \in {HasMethod, NoMethod}
                /\ setup = [s \in SetupIds |-> NoSetup]
             \/ /\ getPlanPrice(q) < getPlanPrice(p)
                /\ rec = [Provisioned(p, a) EXCEPT
                            !.metadata = [pendingPlanChange |-> q, pendingChangeDate |-> 1,
                                          scheduleId |-> 1]]
                /\ scheds = [sc \in SchedIds |->
                               IF sc = 1 THEN [status |-> "active", sub |-> 1,
                                               newPrice |-> getStripePriceId(q)]
                               ELSE NoSched]
                /\ nextSched = 2
                /\ cust = HasMethod
                /\ setup = [s \in SetupIds |-> NoSetup]
             \/ /\ getPlanPrice(q) > getPlanPrice(p)
                /\ rec = Provisioned(p, a)
                /\ scheds = [sc \in SchedIds |-> NoSched]
                /\ nextSched = 1
                /\ cust = NoMethod
                /\ setup = [s \in SetupIds |->
                              IF s = 1 THEN [status |-> "open", pendingUpgradeTo |-> q]
                              ELSE NoSetup]
  /\ checkout = ""
  /\ emitted = {}
  /\ delivered = {}
  /\ answer = ""
  /\ CollStart

\* Runs of at most MaxSteps steps.
Init == Start /\ budget = MaxSteps

\* Longer runs, for the claims about sequences of deliveries: from the
\* situations without addons, pending change or open setup session.
DeepInit ==
  /\ Start
  /\ rec.activeAddOns = <<>> /\ rec.metadata = NoPending
  /\ \A s \in SetupIds : setup[s] = NoSetup
  /\ budget = MaxSteps + 2

\* The handler's world becomes the state; the events of its processor
\* calls join the events the processor has emitted.
Commit(w) ==
  /\ rec' = w.rec
  /\ subs' = w.subs
  /\ nextSub' = w.nextSub
  /\ scheds' = w.scheds
  /\ nextSched' = w.nextSched
  /\ cust' = w.cust
  /\ setup' = w.setup
  /\ checkout' = w.checkout
  /\ emitted' = emitted \cup w.evs
  /\ UNCHANGED collVars

\* A request handler's result r is committed: its world becomes the state
\* and answer holds the code of its response.
Answer(r) == Commit(r.w) /\ answer' = r.code

PlanInputs == PLANS \cup {"ENTERPRISE"}
ProrationInputs == {"create_prorations", "weekly"}
ApplyOutcomes == {"ok", "fail", "nopm"}

\* ---------------------------------------------------------------- requests
\* The outcome of a call the request does not reach is not an input of it:
\* such outcomes are fixed.  The processor rejects for lack of a payment
\* source only a change to a higher price.
UsedOutcomes(planType, pb, relOk, setOk, getOk, apply) ==
  LET reaches == /\ planType \in getValidPlans /\ pb \in validProrationBehaviors
                 /\ rec.exists /\ rec.stripeSubscriptionId # 0
                 /\ rec.planType # planType
      cmp == comparePlans(rec.planType, planType)
  IN /\ (relOk \/ (reaches /\ rec.metadata.scheduleId # 0))
     /\ (setOk \/ (reaches /\ cmp.isUpgrade /\ cmp.newPrice > 0
                      /\ ~cust.hasDefault /\ cust.attachable))
     /\ (getOk \/ reaches)
     /\ (apply = "ok" \/ reaches)
     /\ (apply = "nopm" => comparePlans(rec.planType, planType).isUpgrade)
     /\ (pb = "create_prorations" \/ planType \in getValidPlans)

UpdateSubscriptionPlan ==
  /\ budget > 0
  /\ \E planType \in PlanInputs, pb \in ProrationInputs, relOk \in BOOLEAN,
        setOk \in BOOLEAN, getOk \in BOOLEAN, apply \in ApplyOutcomes :
       /\ UsedOutcomes(planType, pb, relOk, setOk, getOk, apply)
       /\ Answer(updateSubscriptionPlan(Cur, planType, pb, relOk, setOk, getOk, apply))
  /\ budget' = budget - 1
  /\ UNCHANGED delivered

CompleteUpgrade ==
  /\ budget > 0
  /\ \E session \in {getSetupSession(Cur, sid) : sid \in SetupIds}
                     \cup {CheckoutSession : x \in {checkout} \ {""}},
        setOk \in BOOLEAN, apply \in ApplyOutcomes :
       LET reaches == /\ session.status = "complete" /\ session.paymentMethod
                      /\ session.pendingUpgradeTo # ""
                      /\ rec.exists /\ rec.stripeSubscriptionId # 0
       IN /\ (setOk \/ reaches)
          /\ (apply = "ok" \/ (reaches /\ setOk))
          /\ Answer(completeUpgrade(Cur, session, setOk, apply))
  /\ budget' = budget - 1
  /\ UNCHANGED delivered

CancelSubscription ==
  /\ budget > 0
  /\ \E immediate \in BOOLEAN, cancelOk \in BOOLEAN, createOk \in BOOLEAN,
        spaceOk \in BOOLEAN :
       /\ (createOk \/ (immediate /\ cancelOk))
       /\ (spaceOk \/ (immediate /\ cancelOk /\ createOk))
       /\ Answer(cancelSubscription(Cur, immediate, cancelOk, createOk, spaceOk))
  /\ budget' = budget - 1
  /\ UNCHANGED delivered

\* The internal endpoint the user service calls when the user registers:
\* no record of the user exists yet.
CreateFreeContract ==
  /\ budget > 0
  /\ ~rec.exists
  /\ \E plan \in {FREE_PLAN, "PRO"}, email \in Emails, spaceOk \in BOOLEAN,
        custOk \in BOOLEAN, createOk \in BOOLEAN, saveOk \in BOOLEAN :
       /\ (spaceOk \/ plan = FREE_PLAN)
       /\ (custOk \/ (plan = FREE_PLAN /\ spaceOk))
       /\ (createOk \/ (plan = FREE_PLAN /\ spaceOk /\ custOk))
       /\ (saveOk \/ (plan = FREE_PLAN /\ spaceOk /\ custOk /\ createOk))
       /\ Answer(createFreeContract(Cur, plan, email, spaceOk, custOk, createOk, saveOk))
  /\ budget' = budget - 1
  /\ UNCHANGED delivered

CreateCheckoutSession ==
  /\ budget > 0
  /\ \E planType \in PlanInputs, email \in Emails, custOk \in BOOLEAN, sessOk \in BOOLEAN :
       /\ (custOk \/ planType \in getValidPlans)
       /\ (sessOk \/ (planType \in getValidPlans /\ custOk /\ ~(rec.exists /\ isActive(rec))))
       /\ Answer(createCheckoutSession(Cur, planType, email, custOk, sessOk))
  /\ budget' = budget - 1
  /\ UNCHANGED delivered

\* A purchase is served while the record holds fewer than MaxAddOns entries.
PurchaseAddOn ==
  /\ budget > 0
  /\ Len(rec.activeAddOns) < MaxAddOns
  /\ \E addonName \in ADDONS \cup {"invalid_addon"}, itemOk \in BOOLEAN :
       LET reaches == /\ addonName \in ADDONS /\ rec.exists /\ isActive(rec)
                      /\ isAddOnAvailableForPlan(addonName, rec.planType)
                      /\ addonName \notin ActiveNames(rec.activeAddOns)
                      /\ rec.stripeSubscriptionId # 0
                      /\ (cust.hasDefault \/ cust.attachable)
       IN /\ (itemOk \/ reaches)
          /\ Answer(purchaseAddOn(Cur, addonName, itemOk))
  /\ budget' = budget - 1
  /\ UNCHANGED delivered

\* ------------------------------------------------------------------ webhook
AllOk == [readOk |-> TRUE, createOk |-> TRUE, s1 |-> TRUE, s2 |-> TRUE]

\* The outcomes of the calls a handler of the given event type makes: the
\* processor read (readOk), createFreeSubscription (createOk) and its first
\* and second save (s1, s2).
Outcomes(type) ==
  CASE type = "checkout.session.completed" ->
         {[AllOk EXCEPT !.readOk = r, !.s1 = a] : r \in BOOLEAN, a \in BOOLEAN}
    [] type = "customer.subscription.deleted" ->
         {[AllOk EXCEPT !.createOk = c, !.s1 = a, !.s2 = b] :
            c \in BOOLEAN, a \in BOOLEAN, b \in BOOLEAN}
    [] type \in {"subscription_schedule.completed", "subscription_schedule.released"} ->
         {[AllOk EXCEPT !.readOk = r, !.s1 = a, !.s2 = b] :
            r \in BOOLEAN, a \in BOOLEAN, b \in BOOLEAN}
    [] OTHER -> {[AllOk EXCEPT !.s1 = a] : a \in BOOLEAN}

\* handleWebhook: the verified event e dispatched to its handler under the
\* outcomes f; the endpoint answers 400 when the handler throws and 200
\* otherwise.
handleWebhook(w, e, f) ==
  LET h == dispatch(w, e, f.readOk, f.createOk, f.s1, f.s2)
  IN [w |-> h.w, http |-> IF h.threw THEN 400 ELSE 200, full |-> h.full, prov |-> h.prov]

\* An event the processor has emitted is delivered: events come in any
\* order, and an event already delivered may be delivered again.  delivered
\* holds the events the endpoint has acknowledged; the processor keeps
\* redelivering the others.
HandleWebhook ==
  /\ budget > 0
  /\ \E e \in emitted : \E f \in Outcomes(e.type) :
       LET h == handleWebhook(Cur, e, f)
       IN /\ Commit(h.w)
          /\ delivered' = IF h.http = 200 THEN delivered \cup {e} ELSE delivered
          /\ answer' = ""
  /\ budget' = budget - 1

\* handleWebhook for a payload whose signature or JSON is invalid: 400,
\* nothing is dispatched.
HandleWebhookRejected ==
  /\ budget > 0
  /\ budget' = budget - 1
  /\ answer' = ""
  /\ UNCHANGED <<rec, subs, nextSub, scheds, nextSched, cust, setup, checkout,
                 emitted, delivered, collVars>>

\* ---------------------------------------------- the processor and the customer
Env(w) ==
  /\ budget > 0
  /\ Commit(w)
  /\ answer' = ""
  /\ budget' = budget - 1
  /\ UNCHANGED delivered

Billable(id) == subs[id].status \in {"active", "past_due"}

\* The period of a subscription ends and the invoice of the next is paid.
StripeRenews ==
  \E id \in SubIds :
    /\ Billable(id) /\ ~subs[id].cape /\ subs[id].period < MaxPeriod
    /\ \A sc \in SchedIds : ~(scheds[sc].sub = id /\ scheds[sc].status = "active")
    /\ LET s == [subs[id] EXCEPT !.period = @ + 1, !.status = "active"]
       IN Env([Cur EXCEPT !.subs[id] = s,
                          !.evs = {SubEvent("customer.subscription.updated", id, s),
                                   InvoiceEvent("invoice.payment_succeeded", id)}])

\* An invoice of the subscription cannot be collected.
StripePaymentFails ==
  \E id \in SubIds :
    /\ subs[id].status = "active"
    /\ LET s == [subs[id] EXCEPT !.status = "past_due"]
       IN Env([Cur EXCEPT !.subs[id] = s,
                          !.evs = {SubEvent("customer.subscription.updated", id, s),
                                   InvoiceEvent("invoice.payment_failed", id)}])

\* The subscription ends at the processor: the period ends on a
\* subscription flagged cancel_at_period_end, the processor gives up
\* collecting, or the subscription is canceled from the processor's dashboard.
StripeEndsSubscription ==
  \E id \in SubIds :
    /\ Billable(id)
    /\ Env([StripeCancel(Cur, id) EXCEPT !.mut = 0])

\* The period ends on a subscription with an active schedule: the second
\* phase puts the subscription on the scheduled price and the schedule ends.
StripeScheduleCompletes ==
  \E sc \in SchedIds :
    /\ scheds[sc].status = "active"
    /\ Billable(scheds[sc].sub) /\ ~subs[scheds[sc].sub].cape
    /\ subs[scheds[sc].sub].period < MaxPeriod
    /\ LET id == scheds[sc].sub
           s == [subs[id] EXCEPT !.price = scheds[sc].newPrice, !.period = @ + 1]
       IN Env([Cur EXCEPT !.subs[id] = s,
                          !.scheds[sc].status = "completed",
                          !.evs = {SubEvent("customer.subscription.updated", id, s),
                                   SchedEvent("subscription_schedule.completed", sc, id)}])

\* The customer pays the open checkout session: the processor creates the
\* subscription and reports the completed session.
CustomerPaysCheckout ==
  /\ checkout # "" /\ nextSub <= MaxSubs
  /\ LET w == StripeCreate(Cur, checkout)
     IN Env([w EXCEPT !.checkout = "", !.mut = 0,
                      !.cust.hasDefault = TRUE, !.cust.attachable = TRUE,
                      !.evs = @ \cup {CheckoutEvent(nextSub)}])

\* The customer fills in the open setup session, which attaches a method.
CustomerCompletesSetup ==
  \E s \in SetupIds :
    /\ setup[s].status = "open"
    /\ Env([Cur EXCEPT !.setup[s].status = "complete", !.cust.attachable = TRUE])

Next ==
  \/ CreateFreeContract
  \/ UpdateSubscriptionPlan
  \/ CompleteUpgrade
  \/ CancelSubscription
  \/ CreateCheckoutSession
  \/ PurchaseAddOn
  \/ HandleWebhook
  \/ HandleWebhookRejected
  \/ StripeRenews
  \/ StripePaymentFails
  \/ StripeEndsSubscription
  \/ StripeScheduleCompletes
  \/ CustomerPaysCheckout
  \/ CustomerCompletesSetup

Spec == Init /\ [][Next]_vars

DeepSpec == DeepInit /\ [][Next]_vars

\* The collection and the consumer, with no record's lifecycle under way.
CollInit ==
  /\ Start /\ rec = NoRecord /\ cust = NoCustomer
  /\ budget = 0

CollSpec == CollInit /\ [][CollNext]_vars

\* ------------------------------------------------------------------ claims
\* The events of the given types that may be delivered in the current state.
Events(types) == {e \in emitted : e.type \in types}

\* The world the next handler finds after a handler left w.
After(w) == [w EXCEPT !.doc = w.rec, !.evs = {}, !.mut = 0, !.space = NoCall]

Known(e) == rec.exists /\ rec.stripeSubscriptionId = e.sub

ScheduleTypes == {"subscription_schedule.completed", "subscription_schedule.released"}
UpdateTypes == {"customer.subscription.created", "customer.subscription.updated"}

\* C1: a plan-change request whose target is not priced higher than the
\* current plan leaves the stored planType as it was, on every path and
\* whatever the outcomes of its processor calls.
C1_DowngradeKeepsPlanType ==
  \A planType \in PLANS, relOk \in BOOLEAN, getOk \in BOOLEAN, apply \in ApplyOutcomes :
    (rec.exists /\ getPlanPrice(planType) <= getPlanPrice(rec.planType))
      => updateSubscriptionPlan(Cur, planType, "create_prorations",
                                relOk, TRUE, getOk, apply).w.rec.planType = rec.planType

\* C2: every active addon entry of the record is available for the
\* record's current planType.
C2_ActiveAddOnsAvailable ==
  rec.exists =>
    \A a \in ActiveNames(rec.activeAddOns) : isAddOnAvailableForPlan(a, rec.planType)

\* Some schedule of the record's subscription is active at the processor.
ScheduleActive ==
  \E sc \in SchedIds : scheds[sc].status = "active" /\ scheds[sc].sub = rec.stripeSubscriptionId

\* C3: once every emitted event has been acknowledged, the record carries
\* a pending change exactly when a schedule of its subscription is active
\* at the processor.
C3_PendingIffScheduleActive ==
  (rec.exists /\ delivered = emitted) => (rec.metadata.scheduleId # 0 <=> ScheduleActive)

\* C4: a request answered with a successful upgrade (type upgrade or
\* new_subscription) leaves the record on the target plan, with the status
\* and period end of the processor's subscription and without pending change.
C4_UpgradeResult ==
  \A planType \in PLANS, relOk \in BOOLEAN, setOk \in BOOLEAN, getOk \in BOOLEAN,
     apply \in ApplyOutcomes :
    LET r == updateSubscriptionPlan(Cur, planType, "create_prorations", relOk, setOk,
                                    getOk, apply)
        st == r.w.subs[r.w.rec.stripeSubscriptionId]
    IN (r.http = 200 /\ r.code \in {"upgrade", "new_subscription"})
         => /\ r.w.rec.planType = planType
            /\ r.w.rec.status = st.status
            /\ r.w.rec.currentPeriodEnd = st.period
            /\ r.w.rec.metadata = NoPending

\* C5: a schedule-completed or schedule-released event processed for an
\* existing record leaves planType derived from the processor's current
\* price, every addon that was active and is not available for that plan
\* canceled, no pending change, and an entitlement update carrying that plan
\* with exactly the names of the addons still active.
C5_ScheduleCompletedApplied ==
  \A e \in Events(ScheduleTypes) : \A f \in Outcomes(e.type) :
    LET h == handleWebhook(Cur, e, f)
        plan == getPlanTypeFromPriceId(subs[e.sub].price)
        before == rec.activeAddOns
        after == h.w.rec.activeAddOns
    IN (rec.exists /\ h.http = 200)
         => /\ h.w.rec.planType = plan
            /\ DOMAIN after = DOMAIN before
            /\ \A i \in DOMAIN before :
                 /\ after[i].name = before[i].name
                 /\ after[i].status =
                      IF before[i].status = "active"
                         /\ ~isAddOnAvailableForPlan(before[i].name, plan)
                      THEN "canceled" ELSE before[i].status
            /\ h.w.rec.metadata = NoPending
            /\ h.w.space = [kind |-> "update", plan |-> plan,
                            addOns |-> [n \in ActiveNames(after) |-> 1]]

\* A schedule-completed event was processed and canceled an addon of the
\* record, which is on the plan the processor's subscription carries.
C5_Witness ==
  /\ \E e \in delivered : e.type = "subscription_schedule.completed" /\ Known(e)
  /\ \E i \in DOMAIN rec.activeAddOns : rec.activeAddOns[i].status = "canceled"
  /\ rec.planType = getPlanTypeFromPriceId(subs[rec.stripeSubscriptionId].price)
  /\ rec.metadata = NoPending

\* C6: a subscription-updated or subscription-created event applied a
\* second time with the same payload leaves the record as the first
\* application left it.
C6_UpdatedIdempotent ==
  \A e \in Events(UpdateTypes) : \A f \in Outcomes(e.type) :
    LET h1 == handleWebhook(Cur, e, AllOk)
        h2 == handleWebhook(After(h1.w), e, f)
    IN h2.w.rec = h1.w.rec

\* A subscription-updated event of a renewal was applied to the record.
C6_Witness ==
  \E e \in delivered :
    /\ e.type = "customer.subscription.updated" /\ Known(e)
    /\ e.period > 1 /\ rec.currentPeriodEnd = e.period

IdempotentTypes ==
  {"checkout.session.completed", "customer.subscription.deleted",
   "invoice.payment_succeeded", "invoice.payment_failed",
   "subscription_schedule.completed"}

\* C7: for checkout-completed, subscription-deleted, invoice-payment-succeeded,
\* invoice-payment-failed and schedule-completed, the event delivered again
\* right after it was fully applied leaves the record unchanged and makes no
\* mutating processor call.
C7_RedeliveryNoOp ==
  \A e \in Events(IdempotentTypes) : \A f1 \in Outcomes(e.type), f2 \in Outcomes(e.type) :
    LET h1 == handleWebhook(Cur, e, f1)
        h2 == handleWebhook(After(h1.w), e, f2)
    IN (h1.http = 200 /\ h1.full) => (h2.w.rec = h1.w.rec /\ h2.w.mut = 0)

\* A subscription-deleted event was fully applied: the record is on the
\* replacement free subscription, and the event can be delivered again.
C7_Witness ==
  \E e \in delivered :
    /\ e.type = "customer.subscription.deleted"
    /\ rec.exists /\ rec.stripeSubscriptionId > e.sub
    /\ rec.planType = FREE_PLAN /\ rec.status = "active"
    /\ subs[rec.stripeSubscriptionId].status = "active"

\* The user's current subscription at the processor: the last one created.
CurrentSub == subs[nextSub - 1]

\* C8: once every emitted event has been acknowledged and no checkout is
\* open, the record's planType, status and subscription ref are those of
\* the user's current subscription at the processor.
C8_Converged ==
  (rec.exists /\ nextSub > 1 /\ checkout = "" /\ emitted # {} /\ delivered = emitted)
    => /\ rec.stripeSubscriptionId = nextSub - 1
       /\ rec.planType = getPlanTypeFromPriceId(CurrentSub.price)
       /\ rec.status = CurrentSub.status

\* C9: every verified event is acknowledged with 200, whatever the outcome
\* of the handler's processor read and saves.
C9_AlwaysAcknowledged ==
  \A e \in emitted : \A f \in Outcomes(e.type) : handleWebhook(Cur, e, f).http = 200

\* C10 as stated: a subscription-deleted event for a known record leaves the
\* record either on the replacement subscription with the free plan and
\* status active, or with status canceled.
C10_TwoOutcomes ==
  \A e \in Events({"customer.subscription.deleted"}) : \A f \in Outcomes(e.type) :
    LET r == handleWebhook(Cur, e, f).w.rec
    IN Known(e)
         => \/ /\ r.stripeSubscriptionId = nextSub
               /\ r.planType = FREE_PLAN
               /\ r.status = "active"
            \/ r.status = "canceled"

\* C10: a subscription-deleted event for a known record has three outcomes.
\* When the replacement is created and the record saved, the record
\* references the replacement, has the free plan and status active; when
\* either fails and the fallback save succeeds, the record has status
\* canceled; when both saves fail nothing is persisted and the stored record
\* is unchanged.
C10_ThreeOutcomes ==
  \A e \in Events({"customer.subscription.deleted"}) : \A f \in Outcomes(e.type) :
    LET h == handleWebhook(Cur, e, f)
        r == h.w.rec
        provisioned == f.createOk /\ nextSub <= MaxSubs /\ f.s1
    IN Known(e)
         => /\ provisioned
                 => /\ h.http = 200
                    /\ r.stripeSubscriptionId = nextSub
                    /\ h.w.subs[nextSub].status = "active"
                    /\ r.planType = FREE_PLAN
                    /\ r.status = "active"
            /\ (~provisioned /\ f.s2)
                 => /\ h.http = 200
                    /\ r.status = "canceled"
                    /\ ~isActive(r)
            /\ (~provisioned /\ ~f.s2) => r = rec

\* A subscription-deleted event was processed for the record it references
\* and no replacement exists: the record is marked canceled.
C10_Witness ==
  \E e \in delivered :
    /\ e.type = "customer.subscription.deleted" /\ Known(e)
    /\ nextSub = e.sub + 1
    /\ rec.status = "canceled" /\ rec.canceledAt

\* The inputs of a plan-change request: target plan and outcomes of the
\* release call, of setDefaultPaymentMethod, of the processor read and of
\* the call applying the change.
RequestInputs ==
  {i \in [planType : PLANS, relOk : BOOLEAN, setOk : BOOLEAN, getOk : BOOLEAN,
           apply : ApplyOutcomes] :
     UsedOutcomes(i.planType, "create_prorations", i.relOk, i.setOk, i.getOk, i.apply)}

requestPlanChange(i) ==
  updateSubscriptionPlan(Cur, i.planType, "create_prorations", i.relOk, i.setOk, i.getOk,
                         i.apply)

\* The processor's subscriptions and schedules are as they were before the
\* handler that left w ran.
ProcessorUntouched(w) ==
  /\ w.subs = subs /\ w.nextSub = nextSub
  /\ w.scheds = scheds /\ w.nextSched = nextSched

\* C11: a plan-change request answered PAYMENT_METHOD_REQUIRED leaves every
\* field of the record as it was and has changed no subscription and no
\* schedule at the processor.
C11_SetupRequiredLeavesRecord ==
  \A i \in RequestInputs :
    requestPlanChange(i).code = "PAYMENT_METHOD_REQUIRED"
      => /\ requestPlanChange(i).w.rec = rec
         /\ ProcessorUntouched(requestPlanChange(i).w)

\* C12: a plan-change or checkout request naming no plan of the catalog,
\* and a plan-change request with a proration preference outside
\* create_prorations, none, always_invoice, is answered 400 with the world
\* exactly as it was: no processor call, no entitlement call, no record
\* written, whatever the outcomes the later calls would have had.
C12_ValidationFirst ==
  /\ \A planType \in PlanInputs \cup {""},
        pb \in ProrationInputs,
        relOk \in BOOLEAN, setOk \in BOOLEAN, getOk \in BOOLEAN, apply \in ApplyOutcomes :
       LET h == updateSubscriptionPlan(Cur, planType, pb, relOk, setOk, getOk, apply)
       IN (planType \notin getValidPlans \/ pb \notin validProrationBehaviors)
            => /\ h.http = 400
               /\ h.code \in {"MISSING_PLAN_TYPE", "INVALID_PLAN_TYPE",
                              "INVALID_PRORATION_BEHAVIOR"}
               /\ h.w = Cur
  /\ \A planType \in PlanInputs \cup {""}, email \in Emails,
        custOk \in BOOLEAN, sessOk \in BOOLEAN :
       LET h == createCheckoutSession(Cur, planType, email, custOk, sessOk)
       IN planType \notin getValidPlans
            => /\ h.http = 400
               /\ h.code \in {"MISSING_PLAN_TYPE", "INVALID_PLAN_TYPE"}
               /\ h.w = Cur

\* A plan-change request with an invalid proration preference was rejected
\* on a record with a pending downgrade, whose schedule is still active.
C12_Witness ==
  /\ answer = "INVALID_PRORATION_BEHAVIOR"
  /\ rec.exists /\ rec.metadata.scheduleId # 0 /\ ScheduleActive
  /\ emitted = {}

\* C13: a plan-change request rejected with SAME_PLAN, NO_STRIPE_SUBSCRIPTION
\* or SUBSCRIPTION_NOT_FOUND, and a checkout request rejected with
\* SUBSCRIPTION_ALREADY_EXISTS, leaves the record as it was and makes no
\* mutating processor call and no entitlement call.
C13_RejectionsMutateNothing ==
  /\ \A i \in RequestInputs :
       LET h == requestPlanChange(i)
       IN h.code \in {"SAME_PLAN", "NO_STRIPE_SUBSCRIPTION", "SUBSCRIPTION_NOT_FOUND"}
            => (h.w.rec = rec /\ h.w.mut = 0 /\ h.w.space = NoCall)
  /\ \A planType \in PLANS, email \in Emails, custOk \in BOOLEAN, sessOk \in BOOLEAN :
       LET h == createCheckoutSession(Cur, planType, email, custOk, sessOk)
       IN h.code = "SUBSCRIPTION_ALREADY_EXISTS"
            => (h.w.rec = rec /\ h.w.mut = 0 /\ h.w.space = NoCall)

\* C14: when the processor call applying a plan change fails, the request
\* is answered with a failure and the record's planType, billing refs,
\* addon entries and pending change are as they were before the request.
C14_FailedChangeLeavesRecord ==
  \A i \in RequestInputs :
    LET h == requestPlanChange(i)
    IN h.code = "SUBSCRIPTION_UPDATE_ERROR"
         => /\ h.http = 500
            /\ h.w.rec.planType = rec.planType
            /\ h.w.rec.stripeSubscriptionId = rec.stripeSubscriptionId
            /\ h.w.rec.stripePriceId = rec.stripePriceId
            /\ h.w.rec.activeAddOns = rec.activeAddOns
            /\ h.w.rec.metadata = rec.metadata

\* C15: an operation whose entitlement call fails is answered as, and
\* leaves the record as, the same operation whose entitlement call
\* succeeds.  (updateSubscriptionPlan and completeUpgrade catch the failure
\* of their entitlement call and go on, so its outcome is no input of
\* theirs; free provisioning and cancelSubscription await the call inside
\* the try block of the operation.)
C15_EntitlementFailureNotFatal ==
  /\ \A email \in Emails :
       LET ok == createFreeContract(Cur, FREE_PLAN, email, TRUE, TRUE, TRUE, TRUE)
           ko == createFreeContract(Cur, FREE_PLAN, email, FALSE, TRUE, TRUE, TRUE)
       IN ko.http = ok.http /\ ko.w.rec = ok.w.rec
  /\ \A immediate \in BOOLEAN, cancelOk \in BOOLEAN, createOk \in BOOLEAN :
       LET ok == cancelSubscription(Cur, immediate, cancelOk, createOk, TRUE)
           ko == cancelSubscription(Cur, immediate, cancelOk, createOk, FALSE)
       IN ko.http = ok.http /\ ko.w.rec = ok.w.rec

\* C16: for every pair of catalog plans (and for the record's plan as the
\* current one) comparePlans reports isUpgrade exactly when the target is
\* priced higher, isDowngrade exactly when it is priced lower and isSamePlan
\* exactly when the prices are equal, so exactly one of the three flags holds.
C16_ComparePlans ==
  \A currentPlan \in PLANS \cup {rec.planType}, newPlan \in PLANS :
    LET r == comparePlans(currentPlan, newPlan)
        flags == <<r.isUpgrade, r.isDowngrade, r.isSamePlan>>
    IN /\ r.isUpgrade <=> getPlanPrice(newPlan) > getPlanPrice(currentPlan)
       /\ r.isDowngrade <=> getPlanPrice(newPlan) < getPlanPrice(currentPlan)
       /\ r.isSamePlan <=> getPlanPrice(newPlan) = getPlanPrice(currentPlan)
       /\ Cardinality({k \in 1..3 : flags[k]}) = 1

\* A plan change that comparePlans classified as an upgrade was applied at
\* once: the record is on the dearest plan.
C16_Witness ==
  /\ answer = "upgrade"
  /\ rec.planType = "STUDIO" /\ rec.stripePriceId = getStripePriceId("STUDIO")
  /\ subs[rec.stripeSubscriptionId].price = getStripePriceId("STUDIO")

Sessions ==
  [status : {"open", "complete"}, paymentMethod : BOOLEAN,
   pendingUpgradeTo : PLANS \cup {""}]

\* C18: completeUpgrade answers SETUP_NOT_COMPLETE for a session that is
\* not complete, else NO_PAYMENT_METHOD for one without payment method,
\* else NO_PENDING_UPGRADE for one without recorded target plan; in each
\* case the world is as it was: no default method set, no price update, no
\* record written.
C18_CompleteUpgradeChecks ==
  \A session \in Sessions, setOk \in BOOLEAN, apply \in ApplyOutcomes :
    LET h == completeUpgrade(Cur, session, setOk, apply)
        expected == IF session.status # "complete" THEN "SETUP_NOT_COMPLETE"
                    ELSE IF ~session.paymentMethod THEN "NO_PAYMENT_METHOD"
                    ELSE IF session.pendingUpgradeTo = "" THEN "NO_PENDING_UPGRADE"
                    ELSE ""
    IN expected # "" => (h.code = expected /\ h.http = 400 /\ h.w = Cur)

\* completeUpgrade was called with a setup session the customer has not
\* completed, and rejected.
C18_Witness ==
  /\ answer = "SETUP_NOT_COMPLETE"
  /\ \E sid \in SetupIds :
       /\ setup[sid].status = "open"
       /\ rec.exists /\ rec.planType # setup[sid].pendingUpgradeTo
  /\ ~cust.hasDefault

\* C19: a successful completeUpgrade for the target plan of a completed
\* setup session leaves the record, and sends the entitlement update, that
\* a direct plan-change request to that plan by a customer with a default
\* payment method leaves and sends from the same state.
C19_CompleteUpgradeAsDirect ==
  \A sid \in SetupIds :
    LET session == getSetupSession(Cur, sid)
        T == session.pendingUpgradeTo
        a == completeUpgrade(Cur, session, TRUE, "ok")
        b == updateSubscriptionPlan([Cur EXCEPT !.cust.hasDefault = TRUE], T,
                                    "create_prorations", TRUE, TRUE, TRUE, "ok")
    IN (a.http = 200 /\ b.http = 200)
         => (a.w.rec = b.w.rec /\ a.w.space = b.w.space)

\* C20: a successful request for a plan priced lower than the current one,
\* made while the processor subscription is not canceled, is answered with
\* type downgrade, has persisted the pending change (the requested plan,
\* the end of the current billing period, the schedule just created) and
\* has sent no entitlement call.
C20_DowngradeScheduled ==
  \A i \in RequestInputs :
    LET h == requestPlanChange(i)
        id == rec.stripeSubscriptionId
    IN (/\ rec.exists
        /\ id \in SubIds
        /\ subs[id].status # "canceled"
        /\ getPlanPrice(i.planType) < getPlanPrice(rec.planType)
        /\ h.http = 200)
         => /\ h.code = "downgrade"
            /\ h.w.nextSched = nextSched + 1
            /\ h.w.scheds[nextSched] = [status |-> "active", sub |-> id,
                                        newPrice |-> getPriceIdForPlan(i.planType)]
            /\ h.w.rec.metadata = [pendingPlanChange |-> i.planType,
                                   pendingChangeDate |-> subs[id].period,
                                   scheduleId |-> nextSched]
            /\ h.w.space = NoCall

\* C21: processing a USER_DELETED event for a user issues exactly one
\* entitlement deleteContract call, for that user, whatever the number of
\* the user's documents and whichever cancellations and deletions fail.
C21_OneContractDeletion ==
  \A u \in Users :
    \A cancelFail \in SUBSET Matching(docs, u), deleteFail \in SUBSET Matching(docs, u) :
      LET p == processEvent(Coll, UserDeleted(u), DocIds \ cancelFail, DocIds \ deleteFail)
      IN /\ ~p.threw
         /\ p.c.spaceLog = <<[kind |-> "delete", userId |-> u, plan |-> ""]>>

\* A USER_DELETED event for a user with two documents has been processed,
\* neither document could be removed, and one deletion call was issued.
C21_Witness ==
  /\ Cardinality(Matching(docs, "u1")) = 2
  /\ spaceLog = <<[kind |-> "delete", userId |-> "u1", plan |-> ""]>>

\* C22: once a USER_DELETED event has been processed no document of the
\* user remains, even when the processor cancellation of a document failed
\* (every deleteOne attempted succeeds).
C22_NoRecordRemains ==
  \A u \in Users, cancelOk \in SUBSET DocIds :
    LET p == processEvent(Coll, UserDeleted(u), cancelOk, DocIds)
    IN ~p.threw => Matching(p.c.docs, u) = {}

\* C23: whatever checkout requests, free-plan provisioning calls and
\* checkout-completed events have run, and however they interleaved, the
\* collection holds at most one document per user.
C23_OneRecordPerUser ==
  \A u \in Users : Cardinality(Matching(docs, u)) <= 1

\* C24: no step changes the userId, username or email of a document that
\* exists before and after it.
C24_IdentityImmutable ==
  [][\A d \in DocIds :
       (docs[d].userId # "" /\ docs'[d].userId # "")
         => /\ docs'[d].userId = docs[d].userId
            /\ docs'[d].username = docs[d].username
            /\ docs'[d].email = docs[d].email]_vars

\* C25: the planType of the record is a plan of the catalog in every
\* reachable state, and stays one when a subscription event is processed
\* whose price belongs to no plan of the catalog.
C25_PlanTypeInCatalog ==
  /\ rec.exists => rec.planType \in PLANS
  /\ \A id \in SubIds, type \in UpdateTypes :
       LET e == SubEvent(type, id, [subs[id] EXCEPT !.price = "price_other"])
           h == handleWebhook(Cur, e, AllOk)
       IN (subs[id].status # "none" /\ h.w.rec.exists) => h.w.rec.planType \in PLANS

\* The state, and the state with the record as the route's tests store it:
\* without a billing subscription reference.
PurchaseFixtures ==
  {Cur, [Cur EXCEPT !.rec.stripeSubscriptionId = 0, !.doc.stripeSubscriptionId = 0]}

\* C26: an addon purchase is rejected with the code of the first check that
\* fails, in the order addon exists, record exists, record active, addon
\* available for the plan, addon not active yet, billing subscription
\* present; it then creates no billing item and leaves the record alone.
C26_PurchaseChecks ==
  \A w \in PurchaseFixtures, addonName \in ADDONS \cup {"invalid_addon"}, itemOk \in BOOLEAN :
    LET h == purchaseAddOn(w, addonName, itemOk)
        first ==
          IF addonName \notin ADDONS THEN "INVALID_ADDON"
          ELSE IF ~w.rec.exists THEN "SUBSCRIPTION_NOT_FOUND"
          ELSE IF ~isActive(w.rec) THEN "SUBSCRIPTION_NOT_ACTIVE"
          ELSE IF ~isAddOnAvailableForPlan(addonName, w.rec.planType)
          THEN "ADDON_NOT_AVAILABLE"
          ELSE IF \E i \in DOMAIN w.rec.activeAddOns :
                    /\ w.rec.activeAddOns[i].name = addonName
                    /\ w.rec.activeAddOns[i].status = "active"
          THEN "ADDON_ALREADY_ACTIVE"
          ELSE IF w.rec.stripeSubscriptionId = 0 THEN "NO_STRIPE_SUBSCRIPTION"
          ELSE ""
    IN /\ first # "" => (h.code = first /\ h.http \in {400, 404} /\ h.w = w)
       /\ first = "" => h.code \notin {"INVALID_ADDON", "SUBSCRIPTION_NOT_FOUND",
                                       "SUBSCRIPTION_NOT_ACTIVE", "ADDON_NOT_AVAILABLE",
                                       "ADDON_ALREADY_ACTIVE", "NO_STRIPE_SUBSCRIPTION"}

\* The purchase of an addon that the FREE plan does not offer has been
\* rejected on an active FREE record.
C26_Witness ==
  /\ answer = "ADDON_NOT_AVAILABLE"
  /\ rec.exists /\ isActive(rec) /\ rec.planType = "FREE"

InvoiceTypes == {"invoice.payment_succeeded", "invoice.payment_failed"}

\* C27: an invoice event changes at most the status of the record that
\* references its subscription (payment failed: past_due; payment
\* succeeded: active), issues no processor call and no entitlement call,
\* and changes nothing when no record references its subscription.
C27_InvoiceEventsTouchStatusOnly ==
  \A type \in InvoiceTypes, id \in SubIds \cup {0}, s1 \in BOOLEAN :
    LET e == InvoiceEvent(type, id)
        h == handleWebhook(Cur, e, [AllOk EXCEPT !.s1 = s1])
    IN /\ h.w.rec = [rec EXCEPT !.status = h.w.rec.status]
       /\ ProcessorUntouched(h.w) /\ h.w.mut = 0 /\ h.w.evs = {}
       /\ h.w.space = NoCall
       /\ (id # 0 /\ Known(e) /\ h.http = 200)
            => h.w.rec.status = (IF type = "invoice.payment_failed" THEN "past_due"
                                 ELSE "active")
       /\ (id = 0 \/ ~Known(e) \/ h.http # 200) => h.w.rec = rec

\* The failed payment of the record's subscription has been processed
\* before any other event reporting it: the record is past_due, still on a
\* paid plan with its processor references.
C27_Witness ==
  /\ rec.exists /\ rec.status = "past_due" /\ rec.planType # "FREE"
  /\ InvoiceEvent("invoice.payment_failed", rec.stripeSubscriptionId) \in delivered
  /\ \A e \in delivered : e.type \notin UpdateTypes

\* C28: a checkout-completed event with a userId that is processed leaves
\* exactly one document of that user, holding the customer, subscription,
\* price and status of the session's subscription and the catalog plan of
\* its price, and issues one contract creation for that plan; an event
\* without userId leaves the collection as it was and issues no call.
C28_CompletedLeavesOneRecord ==
  \A s \in sessions :
    LET h == checkoutCompleted(docs, s, TRUE)
        n == checkoutCompleted(docs, s, FALSE)
        m == Matching(h.docs, s.userId)
    IN /\ ~h.threw =>
            /\ Cardinality(m) = 1
            /\ \A d \in m :
                 /\ h.docs[d].stripeCustomerId = s.customer
                 /\ h.docs[d].stripeSubscriptionId = SubRef(s.customer, s.plan)
                 /\ h.docs[d].stripePriceId = getPriceIdForPlan(s.plan)
                 /\ h.docs[d].status = "active"
                 /\ h.docs[d].planType = s.plan
            /\ h.spaceLog = <<[kind |-> "create", userId |-> s.userId, plan |-> s.plan]>>
       /\ n.docs = docs /\ n.spaceLog = <<>> /\ ~n.threw

\* The events of every type the endpoint dispatches on but
\* checkout.session.completed (which creates the record it does not find),
\* and of a type it does not handle, for the subscription id.
DroppableEvents(id) ==
  {SubEvent(type, id, [status |-> "active", price |-> getPriceIdForPlan("PRO"),
                       period |-> 1, cape |-> FALSE]) :
     type \in UpdateTypes \cup {"customer.subscription.deleted"}}
  \cup {InvoiceEvent(type, id) : type \in InvoiceTypes \cup {"customer.created"}}
  \cup {SchedEvent(type, 0, id) :
          type \in {"subscription_schedule.completed", "subscription_schedule.released"}}

\* The lookup of the handler of e finds no record: the record does not
\* exist, or the handler looks up by subscription ref only and the record
\* references another subscription.
MatchesNoRecord(e) ==
  \/ e.type \notin HandledTypes
  \/ ~rec.exists
  \/ /\ e.type \in InvoiceTypes \cup {"customer.subscription.deleted"}
     /\ rec.stripeSubscriptionId # e.sub

\* C29: an event of a type the endpoint does not handle, or whose
\* subscription and customer match no record, leaves the record, the
\* processor's subscriptions and schedules as they were, issues no
\* entitlement call and is answered 200, whatever the handler's calls do.
C29_UnmatchedEventsDropped ==
  \A id \in SubIds : \A e \in DroppableEvents(id) : \A f \in Outcomes(e.type) :
    MatchesNoRecord(e) =>
      LET h == handleWebhook(Cur, e, f)
      IN /\ h.w.rec = rec
         /\ ProcessorUntouched(h.w) /\ h.w.mut = 0
         /\ h.w.space = NoCall
         /\ h.http = 200

\* C30: a consumed message that does not parse, or whose USER_DELETED
\* handler throws, yields exactly one dead-letter message holding the
\* message and the error, and eachMessage returns to the consumer, which
\* takes the next message, without having cancelled or deleted anything; a
\* message of another kind yields no dead-letter message, changes no
\* document and issues no call; a message that is processed yields no
\* dead-letter message.
C30_FailedMessageToDLQ ==
  \A message \in Messages, cancelOk \in {{}, DocIds}, deleteOk \in {{}, DocIds} :
    LET e == eachMessage(Coll, message, cancelOk, deleteOk)
        fails == ~message.parses \/ (message.type = "USER_DELETED" /\ ~message.hasPayload)
    IN /\ e.returned
       /\ fails =>
            /\ Len(e.c.dlq) = 1
            /\ e.c.dlq[1].originalEvent = message
            /\ e.c.dlq[1].error = (IF message.parses THEN "TypeError" ELSE "SyntaxError")
            /\ e.c.docs = docs /\ e.c.cancels = 0 /\ e.c.spaceLog = <<>>
       /\ ~fails => e.c.dlq = <<>>
       /\ (~fails /\ message.type # "USER_DELETED") =>
            e.c.docs = docs /\ e.c.cancels = 0 /\ e.c.spaceLog = <<>>

\* A USER_DELETED message without payload has been consumed while the
\* user had a document: one dead-letter message holds it.
C30_Witness ==
  /\ Matching(docs, "u1") # {}
  /\ Len(dlq) = 1 /\ dlq[1].error = "TypeError"
  /\ dlq[1].originalEvent.type = "USER_DELETED"

C32_UpgradeNeedsDefaultMethod ==
  \A i \in RequestInputs :
    LET cmp == comparePlans(rec.planType, i.planType)
        r == requestPlanChange(i)
        applied == r.w.subs # subs \/ r.w.nextSub # nextSub
    IN (rec.exists /\ rec.stripeSubscriptionId # 0 /\ rec.planType # i.planType
        /\ cmp.isUpgrade /\ cmp.newPrice > 0)
         => /\ applied => r.w.cust.hasDefault
            /\ (~cust.hasDefault /\ ~cust.attachable /\ FreeSetupIds(Cur) # {})
                 => /\ r.code = "PAYMENT_METHOD_REQUIRED"
                    /\ \E sid \in FreeSetupIds(Cur) :
                         r.w.setup[sid] = [status |-> "open", pendingUpgradeTo |-> i.planType]
                    /\ ~applied

\* C33: a valid plan-change request on a record with a pending change that
\* changes a price, creates a schedule or creates a subscription at the
\* processor has had the pending change's schedule released there (it is no
\* longer active) and the pending change cleared from the record: the
\* record it leaves does not name that schedule any more.
C33_PendingReleasedFirst ==
  \A i \in RequestInputs :
    LET old == rec.metadata.scheduleId
        r == requestPlanChange(i)
        applied == \/ r.w.nextSub # nextSub \/ r.w.nextSched # nextSched
                   \/ \E id \in SubIds : r.w.subs[id].price # subs[id].price
    IN (rec.exists /\ rec.stripeSubscriptionId # 0 /\ rec.planType # i.planType
        /\ old # 0 /\ applied)
         => /\ r.w.scheds[old].status # "active"
            /\ r.w.rec.metadata.scheduleId # old

\* C34: a valid plan-change request on a record whose subscription the
\* processor reports canceled leaves that subscription as it is and creates
\* no schedule; when the customer can be charged and the processor creates
\* the subscription, the request is answered new_subscription and the
\* record references the new subscription, priced for the target plan,
\* holds the target plan and has no active addon the catalog does not list
\* for it; no other answer of the request is a success.
C34_CanceledGetsNewSubscription ==
  \A i \in RequestInputs :
    LET id == rec.stripeSubscriptionId
        cmp == comparePlans(rec.planType, i.planType)
        r == requestPlanChange(i)
        chargeable == ~(cmp.isUpgrade /\ cmp.newPrice > 0
                        /\ ~cust.hasDefault /\ ~cust.attachable)
    IN (rec.exists /\ id # 0 /\ rec.planType # i.planType
        /\ i.getOk /\ subs[id].status = "canceled")
         => /\ r.w.subs[id] = subs[id]
            /\ r.w.nextSched = nextSched
            /\ (chargeable /\ i.apply = "ok" /\ nextSub <= MaxSubs) => r.http = 200
            /\ r.http = 200 =>
                 /\ r.code = "new_subscription"
                 /\ r.w.nextSub = nextSub + 1
                 /\ r.w.rec.stripeSubscriptionId = nextSub
                 /\ r.w.subs[nextSub].price = getPriceIdForPlan(i.planType)
                 /\ r.w.subs[nextSub].status = "active"
                 /\ r.w.rec.planType = i.planType
                 /\ \A a \in ActiveNames(r.w.rec.activeAddOns) :
                      isAddOnAvailableForPlan(a, i.planType)

\* A plan change on a canceled subscription was answered new_subscription:
\* the record references the subscription created, the old one is canceled.
C34_Witness ==
  /\ answer = "new_subscription"
  /\ rec.stripeSubscriptionId = nextSub - 1 /\ nextSub > 2
  /\ \E id \in SubIds : id < rec.stripeSubscriptionId /\ subs[id].status = "canceled"

C36_FailureDoesNotBlockOthers ==
  \A u \in Users :
    \A cancelFail \in SUBSET Matching(docs, u), deleteFail \in SUBSET Matching(docs, u) :
    LET found == Matching(docs, u)
        cancelOk == DocIds \ cancelFail
        deleteOk == DocIds \ deleteFail
        p == processEvent(Coll, UserDeleted(u), cancelOk, deleteOk)
        cancelled(d) == docs[d].stripeSubscriptionId = <<>> \/ d \in cancelOk
    IN /\ ~p.threw
       /\ p.c.cancels = Cardinality({d \in found : docs[d].stripeSubscriptionId # <<>>})
       /\ \A d \in found : (cancelled(d) /\ d \in deleteOk) => p.c.docs[d] = NoDoc
       /\ p.c.spaceLog = <<[kind |-> "delete", userId |-> u, plan |-> ""]>>

\* A USER_DELETED event was processed for a user with two documents: the
\* first is removed, the second could not be.
C36_Witness ==
  /\ docs[1] = NoDoc /\ docs[2].userId = "u1"
  /\ spaceLog = <<[kind |-> "delete", userId |-> "u1", plan |-> ""]>>

\* C37: once completeUpgrade has applied the target plan of a setup
\* session and a later plan-change request has put the record on another
\* plan, completeUpgrade called again with that session leaves planType
\* as the plan change left it and changes no price at the processor.
C37_HandleAppliedOnce ==
  \A sid \in SetupIds : \A i \in RequestInputs :
    LET b == requestPlanChange(i)
        c == completeUpgrade(After(b.w), getSetupSession(b.w, sid), TRUE, "ok")
    IN (answer = "completed" /\ setup[sid].status = "complete"
        /\ setup[sid].pendingUpgradeTo = rec.planType
        /\ b.http = 200 /\ b.w.rec.planType # rec.planType)
         => /\ c.w.rec.planType = b.w.rec.planType
            /\ c.w.subs = b.w.subs

\* The contract creation or update the handler that left w has requested
\* carries the planType of the record it leaves and exactly the names of
\* the record's active addons.
CarriesRecord(w) ==
  w.space.kind \in {"create", "update"}
    => /\ w.space.plan = w.rec.planType
       /\ DOMAIN w.space.addOns = ActiveNames(w.rec.activeAddOns)

\* C38: every contract creation or update requested by a plan-change
\* request, by completeUpgrade or by the handler of a subscription or
\* schedule event carries the record's planType and the names of all its
\* active addons.
C38_EntitlementCarriesActiveAddOns ==
  /\ \A i \in RequestInputs : CarriesRecord(requestPlanChange(i).w)
  /\ \A sid \in SetupIds :
       CarriesRecord(completeUpgrade(Cur, getSetupSession(Cur, sid), TRUE, "ok").w)
  /\ \A id \in SubIds :
       /\ \A type \in UpdateTypes :
            CarriesRecord(handleWebhook(Cur, SubEvent(type, id, subs[id]), AllOk).w)
       /\ CarriesRecord(handleWebhook(Cur, SchedEvent("subscription_schedule.completed", 0, id),
                                      AllOk).w)

\* An immediate cancelSubscription request and the delivery of the
\* subscription-deleted event its cancellation emits, every call of both
\* succeeding.  The event is handled either between the request's first
\* save and its createFreeSubscription (between), on the record as that
\* save left it while the request goes on with the document it holds, or
\* after the request has answered.  The world both have left.
cancelRacesDeleted(w, between) ==
  LET a == cancelAtProcessor(w, TRUE, TRUE)
      e == SubEvent("customer.subscription.deleted", w.doc.stripeSubscriptionId, a.st)
  IN IF between
     THEN LET h == handleWebhook(After(a.r.w), e, AllOk)
          IN provisionAfterCancel([After(h.w) EXCEPT !.doc = a.r.w.doc], a.st,
                                  TRUE, TRUE, TRUE).w
     ELSE handleWebhook(After(provisionAfterCancel(a.r.w, a.st, TRUE, TRUE, TRUE).w),
                        e, AllOk).w

\* C39: however an immediate cancel request and the subscription-deleted
\* event it causes interleave, one subscription at most has been created
\* at the processor once both are done, and the record references a
\* subscription that is active there, with status active.
C39_OneReplacementUnderRace ==
  \A between \in BOOLEAN :
    LET id == rec.stripeSubscriptionId
        w == cancelRacesDeleted(Cur, between)
    IN (rec.exists /\ id # 0 /\ subs[id].status \in {"active", "past_due"}
        /\ nextSub < MaxSubs)
         => /\ w.nextSub <= nextSub + 1
            /\ w.rec.status = "active"
            /\ w.subs[w.rec.stripeSubscriptionId].status = "active"

\* The USER_DELETED handler on the user's record and the delivery of the
\* subscription-deleted event its cancellation emits, every call of both
\* succeeding: cancelSubscriptionImmediately, then deleteOne.  The event is
\* handled either between the two (between) or after deleteOne.  The world
\* both have left.
userDeletedRacesDeleted(w, between) ==
  LET id == w.doc.stripeSubscriptionId
      a == StripeCancel(w, id)
      e == SubEvent("customer.subscription.deleted", id, a.subs[id])
      deleteOne(x) == [x EXCEPT !.rec = NoRecord, !.doc = NoRecord]
  IN IF between THEN deleteOne(handleWebhook(After(a), e, AllOk).w)
     ELSE handleWebhook(After(deleteOne(a)), e, AllOk).w

\* C40: however the processing of USER_DELETED and the subscription-deleted
\* event its cancellation causes interleave, once both are done the user
\* has no record and no subscription created meanwhile is live at the
\* processor.
C40_NothingLeftUnderRace ==
  \A between \in BOOLEAN :
    LET id == rec.stripeSubscriptionId
        w == userDeletedRacesDeleted(Cur, between)
    IN (rec.exists /\ id # 0 /\ subs[id].status \in {"active", "past_due"}
        /\ nextSub <= MaxSubs)
         => /\ ~w.rec.exists
            /\ \A n \in SubIds : n >= nextSub => w.subs[n].status \notin {"active", "past_due"}

====
